---- MODULE Spec2Model ----
(***************************************************************************)
(* Model of the RunHuman issue-tester action: run() resolves the issues    *)
(* to test, processIssue() analyses each issue, runQATest() creates a job  *)
(* and polls it (createJob, getJobStatus, pollForCompletion), and the      *)
(* verdict is posted and applied to the issue.                             *)
(***************************************************************************)
EXTENDS Integers, Sequences, FiniteSets, TLC

\* ------------------------------------------------------------------ bounds
\* Issue numbers of the repository that a run can resolve.
MaxIssueNumber == 2
\* A slow status fetch takes this many poll intervals.
SlowIntervals == 10
\* The most comments the two list calls return for the pull request.
MaxIssueComments == 12
MaxReviewComments == 4
\* How far the longest bodies run over their limit.
Overrun == 150

\* --------------------------------------------------------- program constants
POLL_INTERVAL_MS == 60000
MAX_POLL_DURATION_MS == 20 * 60 * 1000
TERMINAL_STATES_withInProgress == {"completed", "error", "abandoned", "incomplete", "in_progress"}
TERMINAL_STATES == {"completed", "error", "abandoned", "incomplete"}

IssueNumbers == 1..MaxIssueNumber

\* ------------------------------------------------------------ data contracts
NoError == [kind |-> "none", jobId |-> 0, lastStatus |-> ""]
NoTestResult == [status |-> "none", success |-> "none", costUsd |-> 0, jobId |-> 0]
NoAnalysis == [isTestable |-> FALSE, reason |-> "", testUrl |-> ""]

\* IssueTestResult as processIssue initialises it.
NewResult(n) ==
  [issueNumber |-> n, status |-> "skipped", passed |-> FALSE,
   testResult |-> NoTestResult, analysis |-> NoAnalysis,
   error |-> NoError, skipReason |-> ""]

\* ActionResults as run initialises it.
EmptyResults ==
  [testedIssues |-> <<>>, passedIssues |-> <<>>, failedIssues |-> <<>>,
   skippedIssues |-> <<>>, totalCostUsd |-> 0, results |-> <<>>]

\* The locals of pollForCompletion; Idle when no poll is running.
IdlePoll == [jobId |-> 0, clock |-> 0, lastStatus |-> "", fetches |-> 0, sleeps |-> 0]

\* The parts of the result comment: its "Tested URL" line and its "Action
\* Taken" statement.
NoComment == [testedUrl |-> "", actionTaken |-> ""]

\* The API calls made for the issue being processed, and what they carried:
\* issueState is the state ensureIssueClosed read, labelStatus the HTTP
\* status of the label removal, analyzedUrl the testUrl of the classifier's
\* reply, jobUrl the url of the job request, prSection whether the job
\* request's validation instructions have a pull request section, posted the
\* comment body that was sent, commented whether the comment was created,
\* and httpStatus the status of the RunHuman response that was not ok.
NoCalls ==
  [analyze |-> 0, create |-> 0, created |-> FALSE, fetched |-> FALSE,
   fetchFailed |-> FALSE, comment |-> 0,
   get |-> 0, close |-> 0, reopen |-> 0, addLabel |-> 0, removeLabel |-> 0,
   issueState |-> "", labelStatus |-> 0,
   analyzedUrl |-> "", jobUrl |-> "", prSection |-> FALSE, posted |-> NoComment,
   commented |-> FALSE, httpStatus |-> 0]

\* What pulls.get, issues.listComments and pulls.listReviewComments return
\* for the merged pull request, the PRContext made of it (number 0 stands
\* for null), and the run's view of them: the body of the issue under test,
\* the replies, the PRContext, and what each formatTestingContext call made.
NoPull == [number |-> 0, body |-> <<>>, issueComments |-> <<>>, reviewComments |-> <<>>]
NoPRContext == [number |-> 0, body |-> <<>>, comments |-> <<>>]
NoContext ==
  [issue |-> [body |-> <<>>], pull |-> NoPull, prContext |-> NoPRContext, formatted |-> <<>>]

Range(s) == {s[i] : i \in 1..Len(s)}

VARIABLES
  context,          \* a call of getPRContext and the calls of formatTestingContext
  extraction,       \* a call of parseIssueNumbersFromCommitMessage
  env,              \* the action's input strings, until parseInputs has read them
  pc,               \* position of run / processIssue
  inputs,           \* ParsedInputs
  disc,             \* the locals of run's mode block, and the inputs it reads
  issuesToProcess,  \* the issue numbers run loops over
  idx,              \* index of the issue being processed
  results,          \* ActionResults
  result,           \* the IssueTestResult local of processIssue
  poll,             \* the locals of pollForCompletion
  nextJobId,        \* the id the job service assigns next
  calls,            \* API calls made for the current issue
  failed,           \* message of core.setFailed, "" when not called
  outputsSet        \* setOutputs was called

vars == <<context, extraction, env, pc, inputs, disc, issuesToProcess, idx, results, result,
          poll, nextJobId, calls, failed, outputsSet>>

\* --------------------------------------------------------------------- text
\* A string whose characters the program examines is a sequence of
\* one-character strings.
Digits == <<"0", "1", "2", "3", "4", "5", "6", "7", "8", "9">>
IsDigit(c) == \E i \in 1..Len(Digits) : Digits[i] = c
DigitValue(c) == (CHOOSE i \in 1..Len(Digits) : Digits[i] = c) - 1
DigitChar(d) == Digits[d + 1]

\* \s of a regular expression, and the white space parseInt skips.
IsWhitespace(c) == c \in {" ", "\n", "\t"}

\* The letters, and toLowerCase on one character.
LowerCase ==
  <<"a", "b", "c", "d", "e", "f", "g", "h", "i", "j", "k", "l", "m",
    "n", "o", "p", "q", "r", "s", "t", "u", "v", "w", "x", "y", "z">>
UpperCase ==
  <<"A", "B", "C", "D", "E", "F", "G", "H", "I", "J", "K", "L", "M",
    "N", "O", "P", "Q", "R", "S", "T", "U", "V", "W", "X", "Y", "Z">>
IsLetter(c) == \E i \in 1..Len(LowerCase) : c = LowerCase[i] \/ c = UpperCase[i]
LowerOf == [c \in Range(UpperCase) |->
              LowerCase[CHOOSE i \in 1..Len(UpperCase) : UpperCase[i] = c]]
LowerChar_keep(c) == c
LowerChar(c) == IF c \in DOMAIN LowerOf THEN LowerOf[c] ELSE c

\* The character classes \d, \s and \w of a regular expression.
InClass(c, class) ==
  CASE class = "d" -> IsDigit(c)
    [] class = "s" -> IsWhitespace(c)
    [] class = "w" -> IsDigit(c) \/ IsLetter(c) \/ c = "_"

StartsWith(str, prefix) ==
  Len(str) >= Len(prefix) /\ SubSeq(str, 1, Len(prefix)) = prefix

\* The longest prefix of str made of characters of the class.
RECURSIVE LeadingRun(_, _)
LeadingRun(str, class) ==
  IF str # <<>> /\ InClass(Head(str), class)
  THEN <<Head(str)>> \o LeadingRun(Tail(str), class)
  ELSE <<>>

\* The value of a sequence of decimal digits.
RECURSIVE DecimalValue(_)
DecimalValue(digits) ==
  IF digits = <<>> THEN 0
  ELSE 10 * DecimalValue(SubSeq(digits, 1, Len(digits) - 1))
         + DigitValue(digits[Len(digits)])

\* parseInt(str, 10): leading white space is skipped, a sign is read, then
\* the longest run of digits; what follows the digits is ignored; NaN when
\* there is no digit.
NaN == [nan |-> TRUE, value |-> 0]
parseInt(str) ==
  LET t == SubSeq(str, Len(LeadingRun(str, "s")) + 1, Len(str))
      signed == t # <<>> /\ Head(t) \in {"-", "+"}
      digits == LeadingRun(IF signed THEN Tail(t) ELSE t, "d")
  IN IF digits = <<>> THEN NaN
     ELSE [nan |-> FALSE,
           value |-> IF signed /\ Head(t) = "-" THEN 0 - DecimalValue(digits)
                     ELSE DecimalValue(digits)]

\* new RegExp(source) throws on a source that is not a regular expression.
RegExpCompiles(source) == source # "[invalid regex("

\* new URL(url).protocol, "" when the constructor throws.
UrlProtocol(url) ==
  CASE url = "https://base" -> "https:"
    [] url = "http://base" -> "http:"
    [] url = "ftp://base" -> "ftp:"
    [] OTHER -> ""

isValidUrl(url) == UrlProtocol(url) \in {"https:", "http:"}

\* A call of parseIssueNumbersFromCommitMessage: the commit message, kept
\* as the parts it is written from, the custom pattern ("" for none), and
\* the array returned.
NoParts ==
  [before |-> <<>>, word |-> <<>>, gap |-> <<>>, hash |-> <<>>, number |-> <<>>,
   after |-> <<>>]
NoExtraction == [parts |-> NoParts, customPattern |-> "", returned |-> <<>>]

\* ------------------------------------------------------------------- inputs
\* What core.getInput returns for the inputs parseInputs validates; an input
\* that is not set reads as the empty string.  api-key and the two numeric
\* inputs are examined character by character.
NoEnv ==
  [apiKey |-> <<>>, targetDurationMinutes |-> <<>>, issueNumber |-> <<>>,
   testUrl |-> "", issuePattern |-> "", autoDetect |-> "",
   reopenOnFailure |-> "", removeFailureLabelOnSuccess |-> ""]

ApiKeys ==
  {<<"q", "a", "_", "l", "i", "v", "e", "_", "k">>,
   <<"s", "k", "_", "l", "i", "v", "e", "_", "k">>}
DurationStrings == {<<>>, <<"5">>, <<"0">>, <<"6", "1">>, <<"5", ".", "5">>, <<"a", "b", "c">>}
IssueNumberStrings ==
  {<<>>, <<"0">>, <<"-", "1">>, <<"a", "b", "c">>, <<"1", "a", "b", "c">>}
    \cup {<<DigitChar(n)>> : n \in 1..MaxIssueNumber}
TestUrlStrings == {"", "https://base", "ftp://base", "base/settings"}
IssuePatternStrings == {"", "JIRA-(\\d+)", "[invalid regex("}
BooleanStrings == {"", "false"}

Envs ==
  [apiKey : ApiKeys, targetDurationMinutes : DurationStrings,
   issueNumber : IssueNumberStrings, testUrl : TestUrlStrings,
   issuePattern : IssuePatternStrings, autoDetect : BooleanStrings,
   reopenOnFailure : BooleanStrings, removeFailureLabelOnSuccess : BooleanStrings]

NoInputs ==
  [testUrl |-> "", qaLabel |-> "", reopenOnFailure |-> FALSE, failureLabel |-> "",
   removeFailureLabelOnSuccess |-> FALSE]

\* What parseInputs can return, for the options processIssue and the label
\* gating read: qaLabel and failureLabel have defaults, so they are never
\* empty; testUrl "" stands for null.  issueNumber and autoDetect are read by
\* run's mode block alone and are kept with its locals.
ParsedInputs ==
  {[testUrl |-> u, qaLabel |-> "qa-test", reopenOnFailure |-> r,
    failureLabel |-> "qa-failed", removeFailureLabelOnSuccess |-> m] :
      u \in {"", "https://base"}, r \in BOOLEAN, m \in BOOLEAN}

\* The number of the merged pull request, when there is one.
PullRequestNumber == 1

\* A fetched issue, as far as run reads it; number 0 stands for no issue.
NoIssue == [number |-> 0, labels |-> {}, source |-> ""]

\* The locals of run's mode block (prNumber 0 and issueNumber 0 stand for
\* null), with inputs.issueNumber and inputs.autoDetect.  The block's own
\* locals are cleared when it is left; prContext, which run hands to every
\* processIssue call, and the issue and the two inputs of a manual run stay.
\* getCommit is how the read of the commit ended ("ok" or "error") and
\* issueReplies what issues.get answers for each number of its message.
NoDisc ==
  [issueNumber |-> 0, autoDetect |-> FALSE, event |-> "", lookup |-> "",
   prNumber |-> 0, prContext |-> FALSE, prLinkedIssues |-> <<>>, commitIssues |-> <<>>,
   issue |-> NoIssue, getCommit |-> "", issueReplies |-> <<>>]

\* The message of setFailed when getIssueByNumber returns null.
NotFoundOrPullRequest == "issue not found or is a pull request"

\* findMergedPRForCommit: the merged PR's number, or null when none is found
\* or the lookup throws.
findMergedPRForCommit_anyPR(lookup) == IF lookup = "error" THEN 0 ELSE PullRequestNumber
findMergedPRForCommit(lookup) == IF lookup = "found" THEN PullRequestNumber ELSE 0

Init ==
  /\ context = NoContext
  /\ extraction = NoExtraction
  /\ env \in Envs
  /\ pc = "parse"
  /\ inputs = NoInputs
  /\ disc = NoDisc
  /\ issuesToProcess = <<>>
  /\ idx = 1
  /\ results = EmptyResults
  /\ result = NewResult(0)
  /\ poll = IdlePoll
  /\ nextJobId = 1
  /\ calls = NoCalls
  /\ failed = ""
  /\ outputsSet = FALSE

\* ------------------------------------------------------- issue resolution
\* toLowerCase on the label names of the repository: qa-test, QA-Test, bug.
toLowerCase(name) == IF name = "QA-Test" THEN "qa-test" ELSE name

\* The label sets an issue can carry.
LabelSets == {{"bug"}, {"bug", "QA-Test"}, {"qa-test"}}

\* hasLabel: some label of the issue equals labelName, letter case ignored.
hasLabel_exact(issue, labelName) ==
  \E label \in issue.labels : label = labelName
hasLabel(issue, labelName) ==
  \E label \in issue.labels : toLowerCase(label) = toLowerCase(labelName)

\* Map.has and Map.set on an insertion-ordered map kept as a sequence.
MapHas(m, n) == \E i \in 1..Len(m) : m[i].number = n
MapSet(m, issue) ==
  IF MapHas(m, issue.number)
  THEN [i \in 1..Len(m) |-> IF m[i].number = issue.number THEN issue ELSE m[i]]
  ELSE Append(m, issue)

RECURSIVE SetAll(_, _)
SetAll(m, issues) ==
  IF issues = <<>> THEN m ELSE SetAll(MapSet(m, Head(issues)), Tail(issues))

SetAbsent_all(m, issues) == m \o issues
RECURSIVE SetAbsent_overwrite(_, _)
SetAbsent_overwrite(m, issues) ==
  IF issues = <<>> THEN m
  ELSE SetAbsent_overwrite(MapSet(m, Head(issues)), Tail(issues))
RECURSIVE SetAbsent(_, _)
SetAbsent(m, issues) ==
  IF issues = <<>> THEN m
  ELSE SetAbsent(IF MapHas(m, Head(issues).number) THEN m ELSE MapSet(m, Head(issues)),
                 Tail(issues))

\* run, "Combine and deduplicate issues".
CombineIssues(prLinkedIssues, commitIssues) ==
  SetAbsent(SetAll(<<>>, prLinkedIssues), commitIssues)

RECURSIVE Filter(_, _, _)
\* issues.filter: the issues whose hasLabel(issue, labelName) is `keep`.
Filter(issues, labelName, keep) ==
  IF issues = <<>> THEN <<>>
  ELSE (IF hasLabel(Head(issues), labelName) = keep THEN <<Head(issues)>> ELSE <<>>)
       \o Filter(Tail(issues), labelName, keep)

labeledIssues(linkedIssues, qaLabel) == Filter(linkedIssues, qaLabel, TRUE)
unlabeledIssues(linkedIssues, qaLabel) == Filter(linkedIssues, qaLabel, FALSE)

\* run, label gating: the issues to process.
GatedIssues_discoveryOrder(linkedIssues, qaLabel, autoDetect) ==
  IF autoDetect /\ Len(unlabeledIssues(linkedIssues, qaLabel)) > 0
  THEN linkedIssues
  ELSE labeledIssues(linkedIssues, qaLabel)
GatedIssues(linkedIssues, qaLabel, autoDetect) ==
  IF autoDetect /\ Len(unlabeledIssues(linkedIssues, qaLabel)) > 0
  THEN labeledIssues(linkedIssues, qaLabel) \o unlabeledIssues(linkedIssues, qaLabel)
  ELSE labeledIssues(linkedIssues, qaLabel)

\* run, label gating: the issues skipped for the missing label.
LabelSkipped(linkedIssues, qaLabel, autoDetect) ==
  IF autoDetect /\ Len(unlabeledIssues(linkedIssues, qaLabel)) > 0
  THEN <<>>
  ELSE unlabeledIssues(linkedIssues, qaLabel)

LabelSkipRecord(n) ==
  [NewResult(n) EXCEPT !.skipReason = "Missing qa label"]

PushLabelSkips_none(res, issues) == res
RECURSIVE PushLabelSkips(_, _)
PushLabelSkips(res, issues) ==
  IF issues = <<>> THEN res
  ELSE PushLabelSkips(
         [res EXCEPT !.skippedIssues = Append(@, Head(issues).number),
                     !.results = Append(@, LabelSkipRecord(Head(issues).number))],
         Tail(issues))

Numbers(issues) == [i \in 1..Len(issues) |-> issues[i].number]

\* The lists of distinct issue numbers a source can return.
NumberLists ==
  {s \in UNION {[1..k -> IssueNumbers] : k \in 0..MaxIssueNumber} :
     \A i, j \in 1..Len(s) : i # j => s[i] # s[j]}

IssuesOf(ns, labels, src) ==
  [i \in 1..Len(ns) |-> [number |-> ns[i], labels |-> labels[ns[i]], source |-> src]]

\* The issue lists a source can return; a copy names the source it came from.
IssueLists(src) ==
  {IssuesOf(ns, labels, src) : ns \in NumberLists, labels \in [IssueNumbers -> LabelSets]}

\* What issues.get answers for issue number n: the issue with its labels, a
\* pull request, 404, or another failure.
IssueReplies(n) ==
  {[number |-> n, status |-> 200, pullRequest |-> FALSE, labels |-> l] : l \in LabelSets}
  \cup {[number |-> n, status |-> 200, pullRequest |-> TRUE, labels |-> {}]}
  \cup {[number |-> n, status |-> st, pullRequest |-> FALSE, labels |-> {}] :
          st \in {404, 500}}

\* The answers for the distinct numbers of a commit message, in its order.
ReplyLists ==
  {s \in UNION {[1..k -> UNION {IssueReplies(n) : n \in IssueNumbers}] :
                  k \in 0..MaxIssueNumber} :
     \A i, j \in 1..Len(s) : i # j => s[i].number # s[j].number}

\* getIssueByNumber: the issue, null (NoIssue) for a pull request or a 404,
\* and any other error rethrown.
getIssueByNumber(reply, src) ==
  IF reply.status = 200 /\ reply.pullRequest THEN [threw |-> FALSE, value |-> NoIssue]
  ELSE IF reply.status = 200
  THEN [threw |-> FALSE,
        value |-> [number |-> reply.number, labels |-> reply.labels, source |-> src]]
  ELSE IF reply.status = 404 THEN [threw |-> FALSE, value |-> NoIssue]
  ELSE [threw |-> TRUE, value |-> NoIssue]

\* getIssuesFromCommitMessage, "Fetch each issue": the loop stops at the
\* first getIssueByNumber that throws.
RECURSIVE FetchEach(_, _)
FetchEach(replies, issues) ==
  IF replies = <<>> THEN [threw |-> FALSE, value |-> issues]
  ELSE LET fetched == getIssueByNumber(Head(replies), "commit")
       IN IF fetched.threw THEN [threw |-> TRUE, value |-> issues]
          ELSE FetchEach(Tail(replies),
                         IF fetched.value # NoIssue
                         THEN Append(issues, fetched.value) ELSE issues)

\* getIssuesFromCommitMessage: one try block around the read of the commit
\* and the loop; its catch returns [].
getIssuesFromCommitMessage_keepFetched(commitRead, replies) ==
  IF ~commitRead THEN <<>> ELSE FetchEach(replies, <<>>).value
getIssuesFromCommitMessage(commitRead, replies) ==
  IF ~commitRead THEN <<>>
  ELSE LET fetched == FetchEach(replies, <<>>)
       IN IF fetched.threw THEN <<>> ELSE fetched.value

\* The messages of the errors parseInputs throws.
InvalidApiKey == "Invalid API key format"
InvalidDuration == "target-duration-minutes must be a number between 1 and 60"
InvalidIssueNumber == "issue-number must be a positive integer"
InvalidTestUrl == "test-url must be a valid URL (http:// or https://)"
InvalidIssuePattern == "issue-pattern must be a valid regular expression"
ConfigurationErrors ==
  {InvalidApiKey, InvalidDuration, InvalidIssueNumber, InvalidTestUrl, InvalidIssuePattern}

ThrowMessage(message) == [threw |-> TRUE, message |-> message, value |-> NoInputs]

\* parseInputs: the checks in the order of the code; the first that fails
\* throws.  The value holds the options the model reads.
parseInputs_noKeyCheck(e) ==
  LET duration == parseInt(IF e.targetDurationMinutes # <<>>
                           THEN e.targetDurationMinutes ELSE <<"5">>)
      issueNumber == parseInt(e.issueNumber)
  IN IF duration.nan \/ duration.value < 1 \/ duration.value > 60
     THEN ThrowMessage(InvalidDuration)
     ELSE IF e.issueNumber # <<>> /\ (issueNumber.nan \/ issueNumber.value < 1)
     THEN ThrowMessage(InvalidIssueNumber)
     ELSE IF e.testUrl # "" /\ ~isValidUrl(e.testUrl)
     THEN ThrowMessage(InvalidTestUrl)
     ELSE IF e.issuePattern # "" /\ ~RegExpCompiles(e.issuePattern)
     THEN ThrowMessage(InvalidIssuePattern)
     ELSE [threw |-> FALSE, message |-> "",
           value |-> [testUrl |-> e.testUrl, qaLabel |-> "qa-test",
                      reopenOnFailure |-> e.reopenOnFailure # "false",
                      failureLabel |-> "qa-failed",
                      removeFailureLabelOnSuccess |->
                        e.removeFailureLabelOnSuccess # "false",
                      issueNumber |-> IF e.issueNumber # <<>>
                                      THEN issueNumber.value ELSE 0,
                      autoDetect |-> e.autoDetect # "false",
                      targetDurationMinutes |-> duration.value]]
parseInputs(e) ==
  IF ~StartsWith(e.apiKey, <<"q", "a", "_", "l", "i", "v", "e", "_">>)
  THEN ThrowMessage(InvalidApiKey)
  ELSE parseInputs_noKeyCheck(e)

\* run's first statement: parseInputs; its error is thrown to run's catch,
\* which calls setFailed with the message.
ParseInputs ==
  /\ pc = "parse"
  /\ LET parsed == parseInputs(env)
         v == parsed.value
     IN IF parsed.threw
        THEN /\ failed' = parsed.message
             /\ pc' = "done"
             /\ UNCHANGED <<inputs, disc>>
        ELSE /\ inputs' = [testUrl |-> v.testUrl, qaLabel |-> v.qaLabel,
                           reopenOnFailure |-> v.reopenOnFailure,
                           failureLabel |-> v.failureLabel,
                           removeFailureLabelOnSuccess |-> v.removeFailureLabelOnSuccess]
             /\ disc' = [NoDisc EXCEPT !.issueNumber = v.issueNumber,
                                       !.autoDetect = v.autoDetect]
             /\ pc' = "mode"
             /\ UNCHANGED failed
  /\ env' = NoEnv
  /\ UNCHANGED <<context, extraction, issuesToProcess, idx, results, result, poll, nextJobId,
                 calls, outputsSet>>

DiscoverManual_fallback ==
  /\ pc = "mode"
  /\ disc.issueNumber # 0
  /\ \/ \E labels \in LabelSets :
          LET issue == [number |-> disc.issueNumber, labels |-> labels, source |-> "manual"]
          IN /\ issuesToProcess' = Numbers(<<issue>>)
             /\ disc' = [NoDisc EXCEPT !.issueNumber = disc.issueNumber,
                                       !.autoDetect = disc.autoDetect, !.issue = issue]
             /\ pc' = "analyze"
     \/ /\ disc' = [disc EXCEPT !.issueNumber = 0]
        /\ pc' = "mode"
        /\ UNCHANGED issuesToProcess
  /\ UNCHANGED <<context, extraction, env, inputs, idx, results, result, poll, nextJobId, calls,
                 failed, outputsSet>>

DiscoverManual_gated ==
  /\ pc = "mode"
  /\ disc.issueNumber # 0
  /\ \/ \E labels \in LabelSets :
          LET issue == [number |-> disc.issueNumber, labels |-> labels, source |-> "manual"]
              toProcess == GatedIssues(<<issue>>, inputs.qaLabel, disc.autoDetect)
              skipped == LabelSkipped(<<issue>>, inputs.qaLabel, disc.autoDetect)
          IN /\ issuesToProcess' = Numbers(toProcess)
             /\ results' = PushLabelSkips(results, skipped)
             /\ disc' = [NoDisc EXCEPT !.issueNumber = disc.issueNumber,
                                       !.autoDetect = disc.autoDetect, !.issue = issue]
             /\ IF Len(toProcess) = 0
                THEN outputsSet' = TRUE /\ pc' = "done"
                ELSE pc' = "analyze" /\ UNCHANGED outputsSet
             /\ UNCHANGED failed
     \/ /\ failed' = NotFoundOrPullRequest
        /\ pc' = "done"
        /\ disc' = NoDisc
        /\ UNCHANGED <<issuesToProcess, results, outputsSet>>
  /\ UNCHANGED <<context, extraction, env, inputs, idx, result, poll, nextJobId, calls>>

\* run, manual mode: getIssueByNumber returns the issue, returns null (404 or
\* a pull request) or throws.
DiscoverManual ==
  /\ pc = "mode"
  /\ disc.issueNumber # 0
  /\ \/ \E labels \in LabelSets :
          LET issue == [number |-> disc.issueNumber, labels |-> labels, source |-> "manual"]
          IN /\ issuesToProcess' = Numbers(<<issue>>)
             /\ disc' = [NoDisc EXCEPT !.issueNumber = disc.issueNumber,
                                       !.autoDetect = disc.autoDetect, !.issue = issue]
             /\ pc' = "analyze"
             /\ UNCHANGED failed
     \/ /\ failed' = NotFoundOrPullRequest
        /\ pc' = "done"
        /\ disc' = NoDisc
        /\ UNCHANGED issuesToProcess
     \/ /\ failed' = "exception"
        /\ pc' = "done"
        /\ disc' = NoDisc
        /\ UNCHANGED issuesToProcess
  /\ UNCHANGED <<context, extraction, env, inputs, idx, results, result, poll, nextJobId, calls,
                 outputsSet>>

\* run, PR merge mode up to the PR context: the pull_request of the payload,
\* or findMergedPRForCommit, whose errors are caught and give null; then
\* getPRContext, whose errors are caught and leave prContext null.
ResolvePR ==
  /\ pc = "mode"
  /\ disc.issueNumber = 0
  /\ \/ \* pull_request event whose PR was not merged
        /\ outputsSet' = TRUE
        /\ pc' = "done"
        /\ disc' = NoDisc
     \/ \E ctx \in BOOLEAN :
          /\ disc' = [disc EXCEPT !.event = "pull_request", !.prNumber = PullRequestNumber,
                                  !.prContext = ctx]
          /\ pc' = "sources"
          /\ UNCHANGED outputsSet
     \/ \E lookup \in {"found", "none", "error"}, ctx \in BOOLEAN :
          LET prNumber == findMergedPRForCommit(lookup)
          IN /\ disc' = [disc EXCEPT !.event = "push", !.lookup = lookup,
                                     !.prNumber = prNumber,
                                     !.prContext = prNumber # 0 /\ ctx]
             /\ pc' = "sources"
             /\ UNCHANGED outputsSet
  /\ UNCHANGED <<context, extraction, env, inputs, issuesToProcess, idx, results, result, poll,
                 nextJobId, calls, failed>>

\* run: getLinkedIssues when there is a PR (its throw reaches run's catch),
\* then getIssuesFromCommitMessage, which catches its errors and returns [].
FetchSources ==
  /\ pc = "sources"
  /\ \/ /\ disc.prNumber # 0
        /\ failed' = "exception"
        /\ pc' = "done"
        /\ disc' = NoDisc
     \/ \E pr \in IssueLists("pr"), commitRead \in BOOLEAN, replies \in ReplyLists :
          /\ disc.prNumber = 0 => pr = <<>>
          /\ ~commitRead => replies = <<>>
          /\ disc' = [disc EXCEPT
                        !.prLinkedIssues = pr,
                        !.getCommit = IF commitRead THEN "ok" ELSE "error",
                        !.issueReplies = replies,
                        !.commitIssues = getIssuesFromCommitMessage(commitRead, replies)]
          /\ pc' = "gate"
          /\ UNCHANGED failed
  /\ UNCHANGED <<context, extraction, env, inputs, issuesToProcess, idx, results, result, poll,
                 nextJobId, calls, outputsSet>>

\* run: combine and deduplicate, label gating, up to the processing loop.
Gate ==
  /\ pc = "gate"
  /\ LET linkedIssues == CombineIssues(disc.prLinkedIssues, disc.commitIssues)
         toProcess == GatedIssues(linkedIssues, inputs.qaLabel, disc.autoDetect)
         skipped == LabelSkipped(linkedIssues, inputs.qaLabel, disc.autoDetect)
     IN IF Len(linkedIssues) = 0
        THEN /\ outputsSet' = TRUE
             /\ pc' = "done"
             /\ UNCHANGED <<issuesToProcess, results>>
        ELSE /\ issuesToProcess' = Numbers(toProcess)
             /\ results' = PushLabelSkips(results, skipped)
             /\ IF Len(toProcess) = 0
                THEN outputsSet' = TRUE /\ pc' = "done"
                ELSE pc' = "analyze" /\ UNCHANGED outputsSet
  /\ disc' = [NoDisc EXCEPT !.prContext = disc.prContext]
  /\ UNCHANGED <<context, extraction, env, inputs, idx, result, poll, nextJobId, calls, failed>>

\* ----------------------------------------------------------- processIssue
\* processIssue's catch block: one record with status error and the message.
CatchError_dropRecord(res, r, err) == res
CatchError(res, r, err) ==
  [res EXCEPT !.results = Append(@, [r EXCEPT !.status = "error", !.error = err])]

\* processIssue, the two skipped returns.
PushSkipped_noReason(res, r, reason) ==
  [res EXCEPT !.skippedIssues = Append(@, r.issueNumber),
              !.results = Append(@, [r EXCEPT !.status = "skipped"])]
PushSkipped(res, r, reason) ==
  [res EXCEPT !.skippedIssues = Append(@, r.issueNumber),
              !.results = Append(@, [r EXCEPT !.status = "skipped", !.skipReason = reason])]

\* result.passed = testResult.result?.success ?? false
Passed_missingIsPass(testResult) == testResult.success # "false"
Passed(testResult) == testResult.success = "true"

\* "Track cost": costUsd is added when truthy.
AddCost_last(res, testResult) ==
  IF testResult.costUsd # 0
  THEN [res EXCEPT !.totalCostUsd = testResult.costUsd]
  ELSE res
AddCost(res, testResult) ==
  IF testResult.costUsd # 0
  THEN [res EXCEPT !.totalCostUsd = @ + testResult.costUsd]
  ELSE res

\* "Manage issue state": the push that follows the posted comment.
PushVerdict_both(res, n, passed) ==
  [res EXCEPT !.passedIssues = Append(@, n), !.failedIssues = Append(@, n)]
PushVerdict(res, n, passed) ==
  IF passed
  THEN [res EXCEPT !.passedIssues = Append(@, n)]
  ELSE [res EXCEPT !.failedIssues = Append(@, n)]

\* The two pushes that end processIssue's try block.
PushTested_noRecord(res, r) ==
  [res EXCEPT !.testedIssues = Append(@, r.issueNumber)]
PushTested(res, r) ==
  [res EXCEPT !.testedIssues = Append(@, r.issueNumber),
              !.results = Append(@, r)]

Error(kind) == [NoError EXCEPT !.kind = kind]

\* The replies of the analyze-issue endpoint; with a preset URL the
\* classifier may return it, extend it with a path, or return none.
AnalysisReplies(presetTestUrl) ==
  {[isTestable |-> FALSE, reason |-> r, testUrl |-> ""] : r \in {"", "not a UI issue"}}
  \cup {[isTestable |-> TRUE, reason |-> "", testUrl |-> u] :
          u \in IF presetTestUrl = "" THEN {"", "https://ai"}
                ELSE {"", presetTestUrl, "https://base/settings"}}

\* The non-2xx statuses of the analyze-issue endpoint, and the error
\* analyzeIssue throws for each: 401 has a message of its own.
AnalyzeFailures == {401, 500}
analyzeIssueError(status) == IF status = 401 THEN "auth" ELSE "analysis_failed"
AnalyzeErrors == {analyzeIssueError(status) : status \in AnalyzeFailures}

\* a || b on strings, "" being the falsy one.
OrElse(a, b) == IF a # "" THEN a ELSE b

\* run's for loop: the position after the current issue.
AfterIssue == IF idx + 1 <= Len(issuesToProcess) THEN "analyze" ELSE "finalize"

\* Leaving processIssue for the current issue with the aggregate res.
EndIssue(res) ==
  /\ results' = res
  /\ idx' = idx + 1
  /\ pc' = AfterIssue

\* processIssue from its start to the call of runQATest.
Analyze ==
  /\ pc = "analyze"
  /\ LET n == issuesToProcess[idx]
         r0 == NewResult(n)
     IN /\ poll' = IdlePoll
        /\ \/ \E status \in AnalyzeFailures :
                /\ calls' = [NoCalls EXCEPT !.analyze = 1, !.httpStatus = status]
                /\ result' = r0
                /\ EndIssue(CatchError(results, r0, Error(analyzeIssueError(status))))
           \/ \E a \in AnalysisReplies(inputs.testUrl) :
                LET r1 == [r0 EXCEPT !.analysis = a]
                    testUrl == OrElse(inputs.testUrl, a.testUrl)
                IN /\ calls' = [NoCalls EXCEPT !.analyze = 1, !.analyzedUrl = a.testUrl]
                   /\ IF ~a.isTestable
                      THEN /\ result' = r1
                           /\ EndIssue(PushSkipped(results, r1,
                                         OrElse(a.reason, "Not testable by human")))
                      ELSE IF testUrl = ""
                      THEN /\ result' = r1
                           /\ EndIssue(PushSkipped(results, r1, "No testable URL found"))
                      ELSE /\ result' = [r1 EXCEPT !.analysis.testUrl = testUrl]
                           /\ pc' = "create"
                           /\ UNCHANGED <<results, idx>>
  /\ UNCHANGED <<context, extraction, env, inputs, disc, issuesToProcess, nextJobId, failed,
                 outputsSet>>

\* -------------------------------------------------------------- runQATest
Throw(err) == [threw |-> TRUE, error |-> err, value |-> 0]
Return(v) == [threw |-> FALSE, error |-> NoError, value |-> v]

\* The responses of POST /api/jobs: non-2xx (401 or another status), 2xx
\* without a jobId, 2xx with the jobId the service assigned.
CreateResponses ==
  {[ok |-> FALSE, status |-> 401, hasJobId |-> FALSE],
   [ok |-> FALSE, status |-> 500, hasJobId |-> FALSE],
   [ok |-> TRUE, status |-> 200, hasJobId |-> FALSE],
   [ok |-> TRUE, status |-> 200, hasJobId |-> TRUE]}

createJob_noIdCheck(response, id) ==
  IF ~response.ok
  THEN IF response.status = 401 THEN Throw(Error("auth")) ELSE Throw(Error("create_failed"))
  ELSE Return(IF response.hasJobId THEN id ELSE 0)
createJob(response, id) ==
  IF ~response.ok
  THEN IF response.status = 401 THEN Throw(Error("auth")) ELSE Throw(Error("create_failed"))
  ELSE IF ~response.hasJobId THEN Throw(Error("no_job_id"))
  ELSE Return(id)

\* runQATest up to the first iteration of pollForCompletion: the test URL
\* guard, createJob, and const startTime = Date.now().
CreateJob ==
  /\ pc = "create"
  /\ IF result.analysis.testUrl = ""
     THEN /\ EndIssue(CatchError(results, result, Error("no_test_url")))
          /\ UNCHANGED <<poll, nextJobId, calls>>
     ELSE \E response \in CreateResponses :
            LET created == createJob(response, nextJobId)
            IN /\ calls' = [calls EXCEPT !.create = @ + 1,
                                         !.created = response.ok /\ response.hasJobId,
                                         !.jobUrl = result.analysis.testUrl,
                                         !.prSection = disc.prContext,
                                         !.httpStatus = IF response.ok THEN 0
                                                        ELSE response.status]
               /\ IF created.threw
                  THEN /\ EndIssue(CatchError(results, result, created.error))
                       /\ UNCHANGED <<poll, nextJobId>>
                  ELSE /\ poll' = [IdlePoll EXCEPT !.jobId = created.value]
                       /\ nextJobId' = nextJobId + 1
                       /\ pc' = "poll"
                       /\ UNCHANGED <<results, idx>>
  /\ UNCHANGED <<context, extraction, env, inputs, disc, issuesToProcess, result, failed,
                 outputsSet>>

\* The JobStatusResponse bodies the service can return: a non-terminal status
\* without payload; completed with a passing, a failing or no result; and the
\* other terminal statuses with a passing, a failing or no result.  A body
\* with a result carries a cost.
StatusBodies ==
  {[status |-> st, success |-> "none", costUsd |-> 0] : st \in {"pending", "in_progress"}}
  \cup {[status |-> "completed", success |-> su, costUsd |-> IF su = "none" THEN 0 ELSE 1] :
          su \in {"none", "true", "false"}}
  \cup {[status |-> "error", success |-> "true", costUsd |-> 1],
        [status |-> "error", success |-> "none", costUsd |-> 0],
        [status |-> "abandoned", success |-> "none", costUsd |-> 0],
        [status |-> "incomplete", success |-> "false", costUsd |-> 1]}

NoBody == [status |-> "", success |-> "none", costUsd |-> 0]

\* The outcomes of GET /api/jobs/{id}: fetch rejects, 404, another non-2xx, 2xx.
StatusResponses ==
  {[net |-> FALSE, ok |-> TRUE, status |-> 200, body |-> b] : b \in StatusBodies}
  \cup {[net |-> n, ok |-> FALSE, status |-> c, body |-> NoBody] :
          <<n, c>> \in {<<TRUE, 0>>, <<FALSE, 404>>, <<FALSE, 401>>, <<FALSE, 500>>}}

getJobStatus_swallow(response) ==
  IF response.net \/ ~response.ok
  THEN Return([status |-> "pending", success |-> "none", costUsd |-> 0])
  ELSE Return(response.body)
getJobStatus(response) ==
  IF response.net THEN Throw(Error("network"))
  ELSE IF ~response.ok
  THEN IF response.status = 404 THEN Throw(Error("job_not_found"))
       ELSE Throw(Error("status_failed"))
  ELSE Return(response.body)

\* if (elapsed > MAX_POLL_DURATION_MS)
TimedOut(elapsed) == elapsed > MAX_POLL_DURATION_MS

\* The message of the timeout error: it carries the job id and lastStatus.
TimeoutError_noStatus(jobId, lastStatus) ==
  [kind |-> "timeout", jobId |-> jobId, lastStatus |-> ""]
TimeoutError(jobId, lastStatus) ==
  [kind |-> "timeout", jobId |-> jobId, lastStatus |-> lastStatus]

\* TERMINAL_STATES.includes(status.status)
IsTerminal(status) == status \in TERMINAL_STATES

\* runQATest, "Convert to QATestResponse format".
Normalize(finalStatus, id) ==
  [status |-> finalStatus.status, success |-> finalStatus.success,
   costUsd |-> finalStatus.costUsd, jobId |-> id]

\* The time a status fetch takes: none, or SlowIntervals poll intervals.
FetchDurations == {0, SlowIntervals * POLL_INTERVAL_MS}

\* await sleep(ms): the wall clock when the timer fires.
sleep_half(clock, ms) == clock + ms \div 2
sleep(clock, ms) == clock + ms

\* One iteration of pollForCompletion's loop, its sleep included.  A throw of
\* getJobStatus is caught neither there nor in runQATest, so it reaches
\* processIssue's catch.  When the loop returns, the step runs the rest of
\* runQATest and processIssue up to the comment.
PollIteration ==
  /\ pc = "poll"
  /\ IF TimedOut(poll.clock)
     THEN /\ EndIssue(CatchError(results, result, TimeoutError(poll.jobId, poll.lastStatus)))
          /\ poll' = IdlePoll
          /\ UNCHANGED <<result, calls>>
     ELSE \E response \in StatusResponses :
            LET got == getJobStatus(response)
            IN /\ calls' = [calls EXCEPT !.fetched = TRUE,
                                         !.fetchFailed = response.net \/ ~response.ok,
                                         !.httpStatus = IF response.ok THEN 0
                                                        ELSE response.status]
               /\ IF got.threw
                  THEN /\ EndIssue(CatchError(results, result, got.error))
                       /\ poll' = IdlePoll
                       /\ UNCHANGED result
                  ELSE IF IsTerminal(got.value.status)
                  THEN LET testResult == Normalize(got.value, poll.jobId)
                       IN /\ result' = [result EXCEPT !.testResult = testResult,
                                                      !.status = "tested",
                                                      !.passed = Passed(testResult)]
                          /\ results' = AddCost(results, testResult)
                          /\ poll' = IdlePoll
                          /\ pc' = "comment"
                          /\ UNCHANGED idx
                  ELSE /\ \E d \in FetchDurations :
                            poll' = [poll EXCEPT !.clock = sleep(@ + d, POLL_INTERVAL_MS),
                                                 !.fetches = @ + 1,
                                                 !.sleeps = @ + 1,
                                                 !.lastStatus = got.value.status]
                       /\ UNCHANGED <<pc, results, result, idx>>
  /\ UNCHANGED <<context, extraction, env, inputs, disc, issuesToProcess, nextJobId, failed,
                 outputsSet>>

\* ------------------------------------------------- comment and issue state
GithubError == Error("github")

\* Leaving processIssue at the end of its try block.
Finish == EndIssue(PushTested(results, result))

\* buildTestResultComment: the verdict is read again from the test result;
\* the action statement depends on it alone.
buildTestResultComment(testResult, analysis) ==
  LET passed == testResult.success = "true"
  IN [testedUrl |-> OrElse(analysis.testUrl, "N/A"),
      actionTaken |-> IF ~passed
                      THEN "This issue has been reopened because the QA test failed."
                      ELSE "Test passed. Issue confirmed as resolved."]

PostComment_onlyOnPass ==
  /\ pc = "comment"
  /\ \E created \in BOOLEAN :
       /\ calls' = [calls EXCEPT !.comment = @ + (IF result.passed THEN 1 ELSE 0),
                                 !.commented = created,
                                 !.posted = buildTestResultComment(result.testResult,
                                                                   result.analysis)]
       /\ IF ~created
          THEN EndIssue(CatchError(results, result, GithubError))
          ELSE LET n == result.issueNumber
                   pushed == PushVerdict(results, n, result.passed)
             IN IF result.passed
                THEN /\ results' = pushed
                     /\ pc' = "ensureClosed"
                     /\ UNCHANGED idx
                ELSE IF inputs.reopenOnFailure
                THEN /\ results' = pushed
                     /\ pc' = "reopen"
                     /\ UNCHANGED idx
                ELSE IF inputs.failureLabel # ""
                THEN /\ results' = pushed
                     /\ pc' = "addLabel"
                     /\ UNCHANGED idx
                ELSE EndIssue(PushTested(pushed, result))
  /\ UNCHANGED <<context, extraction, env, inputs, disc, issuesToProcess, result, poll, nextJobId,
                 failed, outputsSet>>

PostComment_ignoreFailure ==
  /\ pc = "comment"
  /\ \E created \in BOOLEAN :
       /\ calls' = [calls EXCEPT !.comment = @ + 1,
                                 !.commented = created,
                                 !.posted = buildTestResultComment(result.testResult,
                                                                   result.analysis)]
       /\ IF FALSE
          THEN EndIssue(CatchError(results, result, GithubError))
          ELSE LET n == result.issueNumber
                   pushed == PushVerdict(results, n, result.passed)
             IN IF result.passed
                THEN /\ results' = pushed
                     /\ pc' = "ensureClosed"
                     /\ UNCHANGED idx
                ELSE IF inputs.reopenOnFailure
                THEN /\ results' = pushed
                     /\ pc' = "reopen"
                     /\ UNCHANGED idx
                ELSE IF inputs.failureLabel # ""
                THEN /\ results' = pushed
                     /\ pc' = "addLabel"
                     /\ UNCHANGED idx
                ELSE EndIssue(PushTested(pushed, result))
  /\ UNCHANGED <<context, extraction, env, inputs, disc, issuesToProcess, result, poll, nextJobId,
                 failed, outputsSet>>

\* postTestResultComment, then "Manage issue state" up to its first call.
PostComment ==
  /\ pc = "comment"
  /\ \E created \in BOOLEAN :
       /\ calls' = [calls EXCEPT !.comment = @ + 1,
                                 !.commented = created,
                                 !.posted = buildTestResultComment(result.testResult,
                                                                   result.analysis)]
       /\ IF ~created
          THEN EndIssue(CatchError(results, result, GithubError))
          ELSE LET n == result.issueNumber
                   pushed == PushVerdict(results, n, result.passed)
             IN IF result.passed
                THEN /\ results' = pushed
                     /\ pc' = "ensureClosed"
                     /\ UNCHANGED idx
                ELSE IF inputs.reopenOnFailure
                THEN /\ results' = pushed
                     /\ pc' = "reopen"
                     /\ UNCHANGED idx
                ELSE IF inputs.failureLabel # ""
                THEN /\ results' = pushed
                     /\ pc' = "addLabel"
                     /\ UNCHANGED idx
                ELSE EndIssue(PushTested(pushed, result))
  /\ UNCHANGED <<context, extraction, env, inputs, disc, issuesToProcess, result, poll, nextJobId,
                 failed, outputsSet>>

\* ensureIssueClosed: read the issue, close it if it is open.
EnsureClosed ==
  /\ pc = "ensureClosed"
  /\ \E state \in {"open", "closed"}, getOk \in BOOLEAN, closeOk \in BOOLEAN :
       LET closing == getOk /\ state = "open"
           threw == ~getOk \/ (closing /\ ~closeOk)
       IN /\ calls' = [calls EXCEPT !.get = @ + 1,
                                    !.close = @ + (IF closing THEN 1 ELSE 0),
                                    !.issueState = IF getOk THEN state ELSE ""]
          /\ IF threw
             THEN EndIssue(CatchError(results, result, GithubError))
             ELSE IF inputs.removeFailureLabelOnSuccess /\ inputs.failureLabel # ""
             THEN pc' = "removeLabel" /\ UNCHANGED <<results, idx>>
             ELSE Finish
  /\ UNCHANGED <<context, extraction, env, inputs, disc, issuesToProcess, result, poll, nextJobId,
                 failed, outputsSet>>

\* The HTTP statuses of the label removal: removed, label absent, failure.
RemoveStatuses == {200, 404, 500}

RemoveLabel_strict ==
  /\ pc = "removeLabel"
  /\ \E status \in RemoveStatuses :
       /\ calls' = [calls EXCEPT !.removeLabel = @ + 1, !.labelStatus = status]
       /\ IF status = 200
          THEN Finish
          ELSE EndIssue(CatchError(results, result, GithubError))
  /\ UNCHANGED <<context, extraction, env, inputs, disc, issuesToProcess, result, poll, nextJobId,
                 failed, outputsSet>>

\* removeLabel: a 404 of the label removal is swallowed, other errors thrown.
RemoveLabel ==
  /\ pc = "removeLabel"
  /\ \E status \in RemoveStatuses :
       /\ calls' = [calls EXCEPT !.removeLabel = @ + 1, !.labelStatus = status]
       /\ IF status \in {200, 404}
          THEN Finish
          ELSE EndIssue(CatchError(results, result, GithubError))
  /\ UNCHANGED <<context, extraction, env, inputs, disc, issuesToProcess, result, poll, nextJobId,
                 failed, outputsSet>>

Reopen_noLabel ==
  /\ pc = "reopen"
  /\ calls' = [calls EXCEPT !.reopen = @ + 1]
  /\ \/ EndIssue(CatchError(results, result, GithubError))
     \/ Finish
  /\ UNCHANGED <<context, extraction, env, inputs, disc, issuesToProcess, result, poll, nextJobId,
                 failed, outputsSet>>

\* reopenIssue: an unconditional update to state open.
Reopen ==
  /\ pc = "reopen"
  /\ calls' = [calls EXCEPT !.reopen = @ + 1]
  /\ \/ EndIssue(CatchError(results, result, GithubError))
     \/ IF inputs.failureLabel # ""
        THEN pc' = "addLabel" /\ UNCHANGED <<results, idx>>
        ELSE Finish
  /\ UNCHANGED <<context, extraction, env, inputs, disc, issuesToProcess, result, poll, nextJobId,
                 failed, outputsSet>>

\* addLabel with the failure label.
AddLabel ==
  /\ pc = "addLabel"
  /\ calls' = [calls EXCEPT !.addLabel = @ + 1]
  /\ \/ EndIssue(CatchError(results, result, GithubError))
     \/ Finish
  /\ UNCHANGED <<context, extraction, env, inputs, disc, issuesToProcess, result, poll, nextJobId,
                 failed, outputsSet>>

\* ------------------------------------------------------------ end of run
Records(res, status) == {i \in 1..Len(res.results) : res.results[i].status = status}

\* "Only fail if ALL tests had system errors".
ShouldFail_anyError(res) == Cardinality(Records(res, "error")) > 0
ShouldFail(res) ==
  /\ Cardinality(Records(res, "error")) > 0
  /\ Cardinality(Records(res, "error")) = Len(res.results)

\* run after the loop: setOutputs, createSummary (its write can throw to
\* run's catch), and the failure policy.
Finalize ==
  /\ pc = "finalize"
  /\ outputsSet' = TRUE
  /\ \/ failed' = "exception"
     \/ failed' = IF ShouldFail(results) THEN "All tests failed due to system errors" ELSE ""
  /\ pc' = "done"
  /\ calls' = NoCalls
  /\ UNCHANGED <<context, extraction, env, inputs, disc, issuesToProcess, idx, results, result,
                 poll, nextJobId>>

Next ==
  \/ ParseInputs
  \/ DiscoverManual
  \/ ResolvePR
  \/ FetchSources
  \/ Gate
  \/ Analyze
  \/ CreateJob
  \/ PollIteration
  \/ PostComment
  \/ EnsureClosed
  \/ RemoveLabel
  \/ Reopen
  \/ AddLabel
  \/ Finalize

Spec == Init /\ [][Next]_vars

\* The event loop resumes pollForCompletion whenever its fetch or its timer
\* completes: the loop iteration is not postponed forever.
FairSpec == Spec /\ WF_vars(PollIteration)

\* ------------------------------------- parseIssueNumbersFromCommitMessage
\* The alternatives close[sd]?, fix(?:e[sd])? and resolve[sd]? of
\* defaultPattern.
Keywords_optional ==
  {<<>>, <<"c", "l", "o", "s", "e">>, <<"f", "i", "x">>, <<"r", "e", "s", "o", "l", "v", "e">>}
Keywords ==
  {<<"c", "l", "o", "s", "e">> \o suffix : suffix \in {<<>>, <<"s">>, <<"d">>}}
    \cup {<<"f", "i", "x">> \o suffix : suffix \in {<<>>, <<"e", "s">>, <<"e", "d">>}}
    \cup {<<"r", "e", "s", "o", "l", "v", "e">> \o suffix : suffix \in {<<>>, <<"s">>, <<"d">>}}

\* The literal occurs in str at position i, letter case ignored (flag i).
HasAt(str, i, literal) ==
  /\ i + Len(literal) - 1 <= Len(str)
  /\ \A j \in 1..Len(literal) : LowerChar(str[i + j - 1]) = LowerChar(literal[j])

From(str, i) == SubSeq(str, i, Len(str))

NoMatch == [found |-> FALSE, end |-> 0, whole |-> <<>>, group |-> <<>>]

\* defaultPattern at position i: a keyword, \s*, #, and (\d+) as group 1.
DefaultMatchAt(str, i) ==
  LET Fits(w) ==
        /\ HasAt(str, i, w)
        /\ LET h == i + Len(w) + Len(LeadingRun(From(str, i + Len(w)), "s"))
           IN /\ h <= Len(str) /\ str[h] = "#"
              /\ LeadingRun(From(str, h + 1), "d") # <<>>
  IN IF \E w \in Keywords : Fits(w)
     THEN LET w == CHOOSE w \in Keywords : Fits(w)
              h == i + Len(w) + Len(LeadingRun(From(str, i + Len(w)), "s"))
              digits == LeadingRun(From(str, h + 1), "d")
          IN [found |-> TRUE, end |-> h + 1 + Len(digits),
              whole |-> SubSeq(str, i, h + Len(digits)), group |-> digits]
     ELSE NoMatch

\* new RegExp(customPattern, 'gi') for the patterns of the model: a literal
\* followed by one or more characters of a class, captured or not.
RegExp(source) ==
  CASE source = "JIRA-(\\d+)" ->
         [literal |-> <<"J", "I", "R", "A", "-">>, class |-> "d", grouped |-> TRUE]
    [] source = "#(\\d+)" ->
         [literal |-> <<"#">>, class |-> "d", grouped |-> TRUE]
    [] source = "PROJ-(\\w+)" ->
         [literal |-> <<"P", "R", "O", "J", "-">>, class |-> "w", grouped |-> TRUE]
    [] source = "issue \\d+" ->
         [literal |-> <<"i", "s", "s", "u", "e", " ">>, class |-> "d", grouped |-> FALSE]

\* The custom regular expression at position i; group is match[1].
CustomMatchAt(str, i, re) ==
  LET run == LeadingRun(From(str, i + Len(re.literal)), re.class)
  IN IF HasAt(str, i, re.literal) /\ run # <<>>
     THEN [found |-> TRUE, end |-> i + Len(re.literal) + Len(run),
           whole |-> SubSeq(str, i, i + Len(re.literal) + Len(run) - 1),
           group |-> IF re.grouped THEN run ELSE <<>>]
     ELSE NoMatch

\* message.matchAll: the matches from left to right, each search starting
\* where the match before it ended.  re is "" for defaultPattern.
RECURSIVE matchAll(_, _, _)
matchAll(str, i, re) ==
  IF i > Len(str) THEN <<>>
  ELSE LET m == IF re = "" THEN DefaultMatchAt(str, i)
                ELSE CustomMatchAt(str, i, RegExp(re))
       IN IF m.found THEN <<m>> \o matchAll(str, m.end, re)
          ELSE matchAll(str, i + 1, re)

\* Set.add on a set kept in insertion order.
SetAdd(set, n) == IF n \in Range(set) THEN set ELSE Append(set, n)

\* The loop over defaultMatches: every capture is added.
RECURSIVE AddDefaults(_, _)
AddDefaults(issueNumbers, matches) ==
  IF matches = <<>> THEN issueNumbers
  ELSE AddDefaults(SetAdd(issueNumbers, parseInt(Head(matches).group).value),
                   Tail(matches))

\* The loop over customMatches: match[1] || match[0] is parsed and added if
\* it is a number above 0.
RECURSIVE AddCustoms(_, _)
AddCustoms(issueNumbers, matches) ==
  IF matches = <<>> THEN issueNumbers
  ELSE LET m == Head(matches)
           num == parseInt(IF m.group # <<>> THEN m.group ELSE m.whole)
       IN AddCustoms(IF ~num.nan /\ num.value > 0
                     THEN SetAdd(issueNumbers, num.value) ELSE issueNumbers,
                     Tail(matches))

parseIssueNumbersFromCommitMessage_uncaught(message, customPattern) ==
  IF customPattern # "" /\ ~RegExpCompiles(customPattern)
  THEN <<>>
  ELSE LET defaults == AddDefaults(<<>>, matchAll(message, 1, ""))
       IN IF customPattern # ""
          THEN AddCustoms(defaults, matchAll(message, 1, customPattern))
          ELSE defaults
\* parseIssueNumbersFromCommitMessage: the error of new RegExp is caught.
parseIssueNumbersFromCommitMessage(message, customPattern) ==
  LET defaults == AddDefaults(<<>>, matchAll(message, 1, ""))
  IN IF customPattern # "" /\ RegExpCompiles(customPattern)
     THEN AddCustoms(defaults, matchAll(message, 1, customPattern))
     ELSE defaults

\* The commit message written from its parts.
Message(parts) ==
  parts.before \o parts.word \o parts.gap \o parts.hash \o parts.number \o parts.after

\* The spellings of a word in every letter case.
UpperChar(c) ==
  IF \E i \in 1..Len(LowerCase) : LowerCase[i] = c
  THEN UpperCase[CHOOSE i \in 1..Len(LowerCase) : LowerCase[i] = c]
  ELSE c
RECURSIVE CaseVariants(_)
CaseVariants(word) ==
  IF word = <<>> THEN {<<>>}
  ELSE {<<c>> \o rest : c \in {Head(word), UpperChar(Head(word))},
                        rest \in CaseVariants(Tail(word))}

\* The messages "keyword #N" of the tests, in every letter case.
NumberStrings == {<<"3">>, <<"1", "2">>, <<"0">>, <<"0", "0", "7">>}
KeywordMessages ==
  {[NoParts EXCEPT !.word = w, !.gap = <<" ">>, !.hash = <<"#">>, !.number = n] :
     w \in UNION {CaseVariants(k) : k \in Keywords}, n \in NumberStrings}

\* Messages with text before and after a reference, with words that are
\* keywords or not, with and without white space, # and digits.
Befores ==
  {<<>>, <<"p", "r", "e">>, <<"s", "e", "e", " ", "#", "7", ",", " ">>}
Words ==
  Keywords \cup {<<>>, <<"f", "i">>, <<"J", "I", "R", "A", "-">>,
                 <<"r", "e", "l", "a", "t", "e", "d", " ", "t", "o">>}
Gaps == {<<>>, <<" ", "\n">>, <<":", " ">>}
Hashes == {<<>>, <<"#">>}
Afters ==
  {<<>>, <<" ", "a", "n", "d", " ", "#", "3">>, <<"a", " ", "P", "R", "O", "J", "-", "9">>}
MixedMessages ==
  [before : Befores, word : Words, gap : Gaps, hash : Hashes,
   number : NumberStrings \cup {<<"a", "b", "c">>}, after : Afters]

CustomPatterns ==
  {"", "JIRA-(\\d+)", "#(\\d+)", "PROJ-(\\w+)", "issue \\d+", "[invalid regex("}

ExtractInit ==
  /\ extraction \in
       {[NoExtraction EXCEPT !.parts = p, !.customPattern = c] :
          p \in KeywordMessages, c \in {"", "[invalid regex("}}
       \cup {[NoExtraction EXCEPT !.parts = p, !.customPattern = c] :
               p \in MixedMessages, c \in CustomPatterns}
  /\ context = NoContext
  /\ env = NoEnv
  /\ pc = "extract"
  /\ inputs = NoInputs
  /\ disc = NoDisc
  /\ issuesToProcess = <<>>
  /\ idx = 1
  /\ results = EmptyResults
  /\ result = NewResult(0)
  /\ poll = IdlePoll
  /\ nextJobId = 1
  /\ calls = NoCalls
  /\ failed = ""
  /\ outputsSet = FALSE

\* One call of the function on the message and the pattern.
ParseIssueNumbers ==
  /\ pc = "extract"
  /\ extraction' =
       [extraction EXCEPT !.returned =
          parseIssueNumbersFromCommitMessage(Message(extraction.parts),
                                             extraction.customPattern)]
  /\ pc' = "done"
  /\ UNCHANGED <<context, env, inputs, disc, issuesToProcess, idx, results, result, poll,
                 nextJobId, calls, failed, outputsSet>>

ExtractNext == ParseIssueNumbers

ExtractSpec == ExtractInit /\ [][ExtractNext]_vars

\* ------------------------------------------- PR context and testing context
\* "Character limits for context formatting".
ISSUE_BODY_LIMIT == 2000
PR_BODY_LIMIT == 1500
COMMENT_BODY_LIMIT == 500
MAX_COMMENTS == 10

\* '... (truncated)'
TruncationMarker == <<".", ".", ".", " ", "(", "t", "r", "u", "n", "c", "a", "t", "e", "d", ")">>

\* truncateText: '' for a missing or empty text, the text itself up to the
\* limit, else text.substring(0, limit) and the marker.
truncateText_strict(text, limit) ==
  IF text = <<>> THEN <<>>
  ELSE IF Len(text) < limit THEN text
  ELSE SubSeq(text, 1, limit) \o TruncationMarker
truncateText(text, limit) ==
  IF text = <<>> THEN <<>>
  ELSE IF Len(text) <= limit THEN text
  ELSE SubSeq(text, 1, limit) \o TruncationMarker

\* String.prototype.toLowerCase, endsWith and includes.
LowerString(str) == [i \in 1..Len(str) |-> LowerChar(str[i])]
endsWith(str, suffix) ==
  Len(str) >= Len(suffix) /\ SubSeq(str, Len(str) - Len(suffix) + 1, Len(str)) = suffix
includes(str, part) ==
  \E i \in 1..(Len(str) - Len(part) + 1) : SubSeq(str, i, i + Len(part) - 1) = part

isBotAuthor_suffixOnly(author) == endsWith(LowerString(author), <<"[", "b", "o", "t", "]">>)
isBotAuthor(author) ==
  LET lowerAuthor == LowerString(author)
  IN \/ endsWith(lowerAuthor, <<"[", "b", "o", "t", "]">>)
     \/ lowerAuthor = <<"g", "i", "t", "h", "u", "b", "-", "a", "c", "t", "i", "o", "n", "s">>
     \/ includes(lowerAuthor, <<"d", "e", "p", "e", "n", "d", "a", "b", "o", "t">>)

\* comment.user?.login ?? 'unknown'; a null login is the empty sequence.
AuthorOf(comment) ==
  IF comment.login = <<>> THEN <<"u", "n", "k", "n", "o", "w", "n">> ELSE comment.login

\* getPRContext, "Convert and filter comments": one of its two loops.
RECURSIVE ConvertComments(_, _)
ConvertComments(comments, isReviewComment) ==
  IF comments = <<>> THEN <<>>
  ELSE LET comment == Head(comments)
           author == AuthorOf(comment)
       IN (IF ~isBotAuthor(author) /\ comment.body # <<>>
           THEN <<[body |-> comment.body, author |-> author,
                   createdAt |-> comment.created_at,
                   isReviewComment |-> isReviewComment]>>
           ELSE <<>>)
          \o ConvertComments(Tail(comments), isReviewComment)

\* Array.prototype.sort with the createdAt comparator: a stable sort, so
\* comments of the same time keep their order.
RECURSIVE InsertByCreatedAt(_, _)
InsertByCreatedAt(sorted, comment) ==
  IF sorted = <<>> THEN <<comment>>
  ELSE IF Head(sorted).createdAt <= comment.createdAt
  THEN <<Head(sorted)>> \o InsertByCreatedAt(Tail(sorted), comment)
  ELSE <<comment>> \o sorted
RECURSIVE SortFrom(_, _)
SortFrom(sorted, comments) ==
  IF comments = <<>> THEN sorted
  ELSE SortFrom(InsertByCreatedAt(sorted, Head(comments)), Tail(comments))
SortByCreatedAt(comments) == SortFrom(<<>>, comments)

\* getPRContext, from the three replies; title and author are not modelled.
getPRContext(pull) ==
  LET allComments == ConvertComments(pull.issueComments, FALSE)
                     \o ConvertComments(pull.reviewComments, TRUE)
  IN [number |-> pull.number, body |-> pull.body, comments |-> SortByCreatedAt(allComments)]

\* formatComments: the entries of the first MAX_COMMENTS comments and the
\* number named by the note, 0 when there is no note.
NoDiscussion == [comments |-> <<>>, omitted |-> 0]
formatComments(comments) ==
  [comments |->
     [i \in 1..(IF Len(comments) > MAX_COMMENTS THEN MAX_COMMENTS ELSE Len(comments)) |->
        [author |-> comments[i].author,
         commentType |-> IF comments[i].isReviewComment THEN "review" ELSE "comment",
         body |-> truncateText(comments[i].body, COMMENT_BODY_LIMIT)]],
   omitted |-> IF Len(comments) > MAX_COMMENTS THEN Len(comments) - MAX_COMMENTS ELSE 0]

\* formatIssueSection and formatPRSection, as the values that fill their
\* templates; title, labels and author are not modelled.
formatIssueSection(issue) == [body |-> truncateText(issue.body, ISSUE_BODY_LIMIT)]
NoPRSection == [number |-> 0, body |-> <<>>, discussion |-> NoDiscussion]
formatPRSection(pr) ==
  [number |-> pr.number, body |-> truncateText(pr.body, PR_BODY_LIMIT),
   discussion |-> formatComments(pr.comments)]

formatTestingContext(issue, prContext) ==
  [issueSection |-> formatIssueSection(issue),
   prSection |-> IF prContext # NoPRContext THEN formatPRSection(prContext) ELSE NoPRSection]

\* A text of n characters.
Alphabet == <<"a", "b", "c", "d", "e", "f", "g">>
Text(n) == [i \in 1..n |-> Alphabet[((i - 1) % Len(Alphabet)) + 1]]

\* The lengths of the bodies around a limit.
LengthsAround(limit) == {0, limit - 1, limit, limit + 1, limit + Overrun}

\* The logins of comment authors, taken in turn: people only (one comment
\* without a user), or people and bots.
People == <<<<"a", "l", "i", "c", "e">>, <<"B", "o", "b">>, <<>>>>
PeopleAndBots ==
  <<<<"a", "l", "i", "c", "e">>,
    <<"r", "e", "n", "o", "v", "a", "t", "e", "[", "b", "o", "t", "]">>,
    <<"g", "i", "t", "h", "u", "b", "-", "a", "c", "t",
      "i", "o", "n", "s">>,
    <<"B", "o", "b">>,
    <<"D", "e", "p", "e", "n", "d", "a", "b", "o", "t",
      "-", "p", "r", "e", "v", "i", "e", "w">>,
    <<"C", "o", "p", "i", "l", "o", "t", "[", "B", "O", "T", "]">>,
    <<"g", "i", "t", "h", "u", "b", "-", "a", "c", "t",
      "i", "o", "n", "s", "-", "f", "a", "n">>,
    <<"[", "b", "o", "t", "]", "t", "y">>>>
CommentLengths == <<3, COMMENT_BODY_LIMIT, COMMENT_BODY_LIMIT + 1, 1, COMMENT_BODY_LIMIT + Overrun>>

\* The comment lists a list call can return: n comments whose times are
\* `step` apart, in rising or falling order.
CommentList(n, logins, step, rising) ==
  [i \in 1..n |->
     [login |-> logins[((i - 1) % Len(logins)) + 1],
      created_at |-> step * (IF rising THEN i ELSE n + 1 - i),
      body |-> Text(CommentLengths[((i - 1) % Len(CommentLengths)) + 1])]]
CommentLists(counts, step) ==
  {CommentList(n, logins, step, rising) :
     n \in counts, logins \in {People, PeopleAndBots}, rising \in BOOLEAN}

ContextInit ==
  /\ context \in
       {[NoContext EXCEPT
           !.issue.body = Text(issueBody),
           !.pull = [number |-> PullRequestNumber, body |-> Text(prBody),
                     issueComments |-> issueComments, reviewComments |-> reviewComments]] :
          issueBody \in LengthsAround(ISSUE_BODY_LIMIT),
          prBody \in LengthsAround(PR_BODY_LIMIT) \ {PR_BODY_LIMIT - 1},
          issueComments \in CommentLists({0, 2, MaxIssueComments}, 3),
          reviewComments \in CommentLists({0, MaxReviewComments}, 2)}
  /\ extraction = NoExtraction
  /\ env = NoEnv
  /\ pc = "prContext"
  /\ inputs = NoInputs
  /\ disc = NoDisc
  /\ issuesToProcess = <<>>
  /\ idx = 1
  /\ results = EmptyResults
  /\ result = NewResult(0)
  /\ poll = IdlePoll
  /\ nextJobId = 1
  /\ calls = NoCalls
  /\ failed = ""
  /\ outputsSet = FALSE

\* run: getPRContext, whose errors are caught and leave prContext null.
GetPRContext ==
  /\ pc = "prContext"
  /\ \/ context' = [context EXCEPT !.prContext = getPRContext(context.pull)]
     \/ UNCHANGED context
  /\ pc' = "format"
  /\ UNCHANGED <<extraction, env, inputs, disc, issuesToProcess, idx, results, result, poll,
                 nextJobId, calls, failed, outputsSet>>

\* runQATest: formatTestingContext(issue, prContext), once for every job.
FormatTestingContext ==
  /\ pc = "format"
  /\ context' = [context EXCEPT
                   !.formatted = Append(@, formatTestingContext(context.issue,
                                                                context.prContext))]
  /\ pc' = IF Len(context.formatted) + 1 < MaxIssueNumber THEN "format" ELSE "done"
  /\ UNCHANGED <<extraction, env, inputs, disc, issuesToProcess, idx, results, result, poll,
                 nextJobId, calls, failed, outputsSet>>

ContextNext == GetPRContext \/ FormatTestingContext

ContextSpec == ContextInit /\ [][ContextNext]_vars

\* ============================================================= properties
In(n, list) == n \in Range(list)
RecordsOf(n) == {i \in 1..Len(results.results) : results.results[i].issueNumber = n}
AllRecords == Range(results.results)
LastRecord == results.results[Len(results.results)]
\* processIssue has returned for issuesToProcess[idx - 1] and nothing ran since.
IssueEnded == pc \in {"analyze", "finalize"} /\ idx > 1
\* Records of issues whose job reached a terminal status.
Judged == {r \in AllRecords : r.testResult.status # "none"}
Lists(n) ==
  {l \in {"tested", "passed", "failed", "skipped"} :
     \/ l = "tested" /\ In(n, results.testedIssues)
     \/ l = "passed" /\ In(n, results.passedIssues)
     \/ l = "failed" /\ In(n, results.failedIssues)
     \/ l = "skipped" /\ In(n, results.skippedIssues)}

\* C1 (as stated): at the end of a run every issue number is in at most one of
\* testedIssues, passedIssues, failedIssues, skippedIssues.
C1_OneListOfFour ==
  pc = "done" => \A n \in IssueNumbers : Cardinality(Lists(n)) <= 1

\* C1 (amended): at the end of a run every issue number is in at most one of
\* passedIssues, failedIssues, skippedIssues, a skipped issue is not in
\* testedIssues, and a tested issue is also in passedIssues or failedIssues.
C1_VerdictListsDisjoint ==
  pc = "done" =>
    \A n \in IssueNumbers :
      /\ Cardinality(Lists(n) \ {"tested"}) <= 1
      /\ ~("skipped" \in Lists(n) /\ "tested" \in Lists(n))
      /\ "tested" \in Lists(n) => Lists(n) \in {{"tested", "passed"}, {"tested", "failed"}}

C1_Witness ==
  /\ pc = "done"
  /\ \E n, m \in IssueNumbers :
       /\ Lists(n) = {"tested", "passed"}
       /\ Lists(m) = {"skipped"}

\* C2: for every issue whose job reached a terminal status, passed is true
\* iff the status is completed and result.success is true.
C2_PassedIffCompletedSuccess ==
  \A r \in Judged :
    r.passed <=> (r.testResult.status = "completed" /\ r.testResult.success = "true")

\* C3 (as stated): once a job reached a terminal status, every outcome other
\* than completed-with-success is recorded as tested, passed=false and in
\* failedIssues, never as skipped or error.
C3_NonSuccessIsTestedFailed ==
  \A r \in Judged :
    ~(r.testResult.status = "completed" /\ r.testResult.success = "true") =>
      /\ r.status = "tested"
      /\ ~r.passed
      /\ In(r.issueNumber, results.failedIssues)

\* C3 (amended): once a job reached a terminal status the issue is never
\* recorded as skipped; its record is tested unless the comment or a state
\* or label call threw, which records error; a tested record whose result
\* is missing or has success=false has passed=false and is in failedIssues
\* and not in passedIssues, whatever the terminal status.
C3_MissingOrFalseResultFails ==
  \A r \in Judged :
    /\ r.status \in {"tested", "error"}
    /\ r.status = "error" => r.error.kind = "github"
    /\ ~In(r.issueNumber, results.skippedIssues)
    /\ (r.status = "tested" /\ r.testResult.success # "true") =>
         /\ ~r.passed
         /\ In(r.issueNumber, results.failedIssues)
         /\ ~In(r.issueNumber, results.passedIssues)

C3_Witness ==
  \E r \in Judged :
    /\ r.status = "tested"
    /\ r.testResult.status = "completed"
    /\ r.testResult.success = "false"
    /\ In(r.issueNumber, results.failedIssues)

\* C4: an exception while processing one issue gives that issue exactly one
\* record, with status error and the message, and the loop goes on: every
\* issue before the loop position has exactly one record, the others none.
C4_ErrorRecordedLoopContinues ==
  /\ \A i \in 1..Len(issuesToProcess) :
       Cardinality(RecordsOf(issuesToProcess[i])) = IF i < idx THEN 1 ELSE 0
  /\ \A r \in AllRecords : r.status = "error" <=> r.error.kind # "none"
  /\ pc \in {"finalize", "done"} /\ issuesToProcess # <<>> => idx = Len(issuesToProcess) + 1

C4_Witness ==
  /\ pc = "done"
  /\ Len(issuesToProcess) = 2
  /\ \E r, t \in AllRecords :
       /\ r.issueNumber = issuesToProcess[1] /\ r.status = "error"
       /\ t.issueNumber = issuesToProcess[2] /\ t.status = "tested"

\* C5: the failure policy marks the run failed only if there is at least one
\* record and every record has status error; after the loop it does so in
\* exactly that case, unless writing the summary threw.
AllSystemErrors == "All tests failed due to system errors"
C5_FailedOnlyIfAllErrors ==
  /\ failed = AllSystemErrors =>
       /\ Len(results.results) > 0
       /\ \A r \in AllRecords : r.status = "error"
  /\ (pc = "done" /\ issuesToProcess # <<>> /\ failed = "") =>
       \E r \in AllRecords : r.status \in {"tested", "skipped"}

C5_Witness ==
  /\ failed = AllSystemErrors
  /\ Len(results.results) = 2

\* A step in which pollForCompletion throws its timeout error.
TimeoutStep ==
  /\ pc = "poll"
  /\ pc' \in {"analyze", "finalize"}
  /\ Len(results'.results) = Len(results.results) + 1
  /\ results'.results[Len(results'.results)].error.kind = "timeout"

\* C6: pollForCompletion returns a status record only with a status in
\* {completed, error, abandoned, incomplete}, never pending or in_progress;
\* it throws the timeout error exactly at a loop iteration that starts with
\* more than 20 minutes elapsed; a timeout outcome carries no status record.
C6_ReturnsTerminalOrTimesOut ==
  /\ [](/\ result.testResult.status \in
             {"none", "completed", "error", "abandoned", "incomplete"}
        /\ \A r \in AllRecords :
             /\ r.testResult.status \in
                  {"none", "completed", "error", "abandoned", "incomplete"}
             /\ r.error.kind = "timeout" =>
                  r.testResult.status = "none" /\ r.status = "error")
  /\ [][/\ TimeoutStep => poll.clock > 20 * 60 * 1000
        /\ (pc = "poll" /\ poll.clock > 20 * 60 * 1000) => TimeoutStep]_vars

C6_Witness ==
  \E r, t \in AllRecords :
    /\ r.error.kind = "timeout"
    /\ t.status = "tested" /\ t.testResult.status = "abandoned"

\* C7: a poll that times out gives the issue a record with status error
\* whose message carries the job id and the last status observed, which is
\* not empty; the issue is in none of passedIssues, failedIssues,
\* testedIssues.
C7_TimeoutRecord ==
  /\ [](\A r \in AllRecords :
          r.error.kind = "timeout" =>
            /\ r.status = "error"
            /\ r.error.jobId # 0
            /\ r.error.lastStatus \in {"pending", "in_progress"}
            /\ ~In(r.issueNumber, results.passedIssues)
            /\ ~In(r.issueNumber, results.failedIssues)
            /\ ~In(r.issueNumber, results.testedIssues))
  /\ [][TimeoutStep =>
          LET e == results'.results[Len(results'.results)].error
          IN /\ e.jobId = poll.jobId
             /\ e.lastStatus = poll.lastStatus
             /\ poll.fetches > 0]_vars

C7_Witness ==
  \E r \in AllRecords :
    r.error.kind = "timeout" /\ r.error.lastStatus = "in_progress" /\ r.error.jobId = 2

StatusFetchErrors == {"network", "job_not_found", "status_failed"}

\* C8 (as stated): a failed status fetch does not end the polling: after it
\* the job is still polled, or the poller gave up on the 20-minute timeout.
C8_FailedFetchKeepsPolling ==
  calls.fetchFailed =>
    \/ pc = "poll"
    \/ IssueEnded /\ LastRecord.error.kind = "timeout"

\* C8 (amended): a failed status fetch, network-level or HTTP non-2xx, ends
\* the polling at once: the issue is recorded with status error and the
\* fetch failure as its message, without test result, and is in none of
\* testedIssues, passedIssues, failedIssues.
C8_FailedFetchEndsPolling ==
  calls.fetchFailed =>
    /\ IssueEnded
    /\ LastRecord.issueNumber = issuesToProcess[idx - 1]
    /\ LastRecord.status = "error"
    /\ LastRecord.error.kind \in StatusFetchErrors
    /\ LastRecord.testResult.status = "none"
    /\ Lists(LastRecord.issueNumber) = {}

C8_Witness ==
  /\ calls.fetchFailed
  /\ IssueEnded
  /\ LastRecord.error.kind = "network"

\* C9: the poll loop is bounded and has a fixed cadence: every fetch that
\* does not end the loop is followed by exactly one sleep of the poll
\* interval, so the n-th fetch starts no earlier than (n-1) * 60 s; no fetch
\* starts with more than 20 minutes elapsed (the iteration throws instead);
\* at most 21 fetches are made per job; and, every fetch returning, the loop
\* ends.
C9_BoundedPolling ==
  /\ [](pc = "poll" =>
          /\ poll.sleeps = poll.fetches
          /\ poll.clock >= poll.fetches * 60000
          /\ poll.fetches <= 21
          /\ poll.clock <= 20 * 60 * 1000 => poll.fetches + 1 <= 21)
  /\ [][(pc = "poll" /\ poll.clock > 20 * 60 * 1000) => (TimeoutStep /\ calls' = calls)]_vars
  /\ (pc = "poll") ~> (pc # "poll")

C9_Witness ==
  /\ pc = "poll"
  /\ poll.fetches = 20
  /\ poll.clock = 20 * 60 * 1000

CreateErrors == {"auth", "create_failed", "no_job_id"}

\* C10: at most one create-job request is sent per issue; when it returns a
\* non-2xx response or no job id the issue ends at once with an error
\* record and no status fetch; a status is fetched only for a created job.
C10_CreateNeverRetried ==
  /\ calls.create <= 1
  /\ calls.fetched => calls.create = 1 /\ calls.created
  /\ pc = "poll" => calls.created /\ poll.jobId # 0
  /\ (calls.create = 1 /\ ~calls.created) =>
       /\ IssueEnded
       /\ LastRecord.issueNumber = issuesToProcess[idx - 1]
       /\ LastRecord.status = "error"
       /\ LastRecord.error.kind \in CreateErrors
       /\ ~calls.fetched

C10_Witness ==
  /\ calls.create = 1
  /\ ~calls.created
  /\ IssueEnded
  /\ LastRecord.error.kind = "no_job_id"

\* The positions of processIssue between the classifier's reply and its return.
InIssue == {"create", "poll", "comment", "ensureClosed", "removeLabel", "reopen", "addLabel"}
\* The records appended by processIssue, label-skip records left out.
LoopRecords == {i \in 1..Len(results.results) :
                  In(results.results[i].issueNumber, issuesToProcess)}
JobsCreated == nextJobId - 1

\* C11: issues are processed one after the other: when the classifier is
\* called for an issue, and as long as that issue is processed, the record
\* of every earlier issue of the list has been appended and no later issue
\* has one; no job is in flight when the classifier is called; the job being
\* polled is the last one created, and no more jobs were created than issues
\* were started.
C11_OneIssueAtATime ==
  /\ pc \in {"analyze"} \cup InIssue =>
       /\ Cardinality(LoopRecords) = idx - 1
       /\ \A i \in LoopRecords :
            \E k \in 1..(idx - 1) : results.results[i].issueNumber = issuesToProcess[k]
  /\ pc = "analyze" => poll = IdlePoll /\ JobsCreated <= idx - 1
  /\ pc \in InIssue => result.issueNumber = issuesToProcess[idx] /\ JobsCreated <= idx
  /\ pc = "create" => poll = IdlePoll /\ JobsCreated <= idx - 1
  /\ pc = "poll" => poll.jobId = JobsCreated

C11_Witness ==
  /\ pc = "poll"
  /\ idx = 2
  /\ poll.jobId = 2
  /\ poll.fetches = 1
  /\ results.testedIssues = <<issuesToProcess[1]>>

\* The issue carries the configured QA label qa-test, letter case ignored.
CarriesQaLabel(issue) == issue.labels \cap {"qa-test", "QA-Test"} # {}
\* The resolved issues of automatic mode, from the two fetched sources.
Resolved == CombineIssues(disc.prLinkedIssues, disc.commitIssues)
NumbersIn(issues) == {issues[i].number : i \in 1..Len(issues)}
\* The records of issues skipped for the missing label.
LabelSkipRecords == {r \in AllRecords : r.skipReason = "Missing qa label"}
\* s is t with some elements left out, the order kept.
RECURSIVE IsSubsequence(_, _)
IsSubsequence(s, t) ==
  IF s = <<>> THEN TRUE
  ELSE IF t = <<>> THEN FALSE
  ELSE IF Head(s) = Head(t) THEN IsSubsequence(Tail(s), Tail(t))
  ELSE IsSubsequence(s, Tail(t))

\* C12: in automatic mode the resolved issues are the union by number of the
\* PR-linked issues and the commit-message issues, each number once; for a
\* number in both sources the PR-sourced copy, with its labels, is the one
\* kept; and the issues processed or label-skipped are exactly that union.
C12_UnionPrCopyKept ==
  /\ [](pc = "gate" =>
          /\ NumbersIn(Resolved) =
               NumbersIn(disc.prLinkedIssues) \cup NumbersIn(disc.commitIssues)
          /\ Len(Resolved) = Cardinality(NumbersIn(Resolved))
          /\ \A i \in 1..Len(Resolved) :
               IF Resolved[i].number \in NumbersIn(disc.prLinkedIssues)
               THEN Resolved[i] \in Range(disc.prLinkedIssues)
               ELSE Resolved[i] \in Range(disc.commitIssues))
  /\ [][pc = "gate" /\ Len(Resolved) > 0 =>
          /\ Range(issuesToProcess') \cup Range(results'.skippedIssues) = NumbersIn(Resolved)
          /\ Len(issuesToProcess') + Len(results'.skippedIssues) = Len(Resolved)]_vars

C12_Witness ==
  /\ pc = "gate"
  /\ Len(disc.prLinkedIssues) = 2
  /\ Len(disc.commitIssues) = 2
  /\ disc.prLinkedIssues[2].number = disc.commitIssues[1].number
  /\ disc.prLinkedIssues[2].labels # disc.commitIssues[1].labels

\* C13: label gating: a resolved issue carrying the QA label, letter case
\* ignored, is in the processing list whatever auto-detect is; one lacking
\* it is in the list iff auto-detect is enabled, and otherwise gets a
\* skipped record with the missing-label reason and is in skippedIssues; an
\* issue with such a record is never in the processing list, so it is never
\* sent to the classifier.
C13_LabelGating ==
  /\ [][pc = "gate" =>
          \A i \in 1..Len(Resolved) :
            LET issue == Resolved[i]
            IN /\ CarriesQaLabel(issue) => In(issue.number, issuesToProcess')
               /\ ~CarriesQaLabel(issue) =>
                    (In(issue.number, issuesToProcess') <=> disc.autoDetect)
               /\ (~CarriesQaLabel(issue) /\ ~disc.autoDetect) =>
                    /\ In(issue.number, results'.skippedIssues)
                    /\ \E r \in Range(results'.results) :
                         /\ r.issueNumber = issue.number
                         /\ r.status = "skipped"
                         /\ r.skipReason = "Missing qa label"]_vars
  /\ [](\A r \in LabelSkipRecords :
          /\ ~In(r.issueNumber, issuesToProcess)
          /\ r.analysis = NoAnalysis
          /\ r.issueNumber # result.issueNumber)

C13_Witness ==
  /\ pc = "done"
  /\ Len(issuesToProcess) = 1
  /\ results.testedIssues = issuesToProcess
  /\ \E r \in LabelSkipRecords : r.issueNumber # issuesToProcess[1]

\* C14 (as stated): a run that ends with an empty processing list after
\* discovery and label gating is not failed and all its aggregates are empty.
C14_EmptySetEmptyAggregates ==
  (pc = "done" /\ outputsSet /\ issuesToProcess = <<>>) =>
    failed = "" /\ results = EmptyResults

\* C14 (amended): a run that ends with an empty processing list after
\* discovery and label gating is not failed; testedIssues, passedIssues and
\* failedIssues are empty and the total cost is 0; skippedIssues and results
\* hold exactly the issues skipped for the missing label, which are all the
\* resolved issues, and are empty only when no issue was resolved.
C14_EmptySetOnlyLabelSkips ==
  /\ []((pc = "done" /\ outputsSet /\ issuesToProcess = <<>>) =>
          /\ failed = ""
          /\ results.testedIssues = <<>>
          /\ results.passedIssues = <<>>
          /\ results.failedIssues = <<>>
          /\ results.totalCostUsd = 0
          /\ AllRecords = LabelSkipRecords
          /\ Len(results.results) = Len(results.skippedIssues)
          /\ \A i \in 1..Len(results.results) :
               results.results[i].issueNumber = results.skippedIssues[i])
  /\ [][(pc = "gate" /\ pc' = "done") =>
          /\ issuesToProcess' = <<>>
          /\ outputsSet'
          /\ results'.skippedIssues = Numbers(Resolved)]_vars

C14_Witness ==
  /\ pc = "done"
  /\ outputsSet
  /\ issuesToProcess = <<>>
  /\ Len(results.skippedIssues) = 2
  /\ failed = ""

\* C15 (as stated): the processing list keeps the order of the resolved
\* issues, for every auto-detect setting and label assignment.
C15_DiscoveryOrder ==
  [][pc = "gate" => IsSubsequence(issuesToProcess', Numbers(Resolved))]_vars

\* C15 (amended): the processing list is the resolved issues carrying the
\* QA label, in discovery order, followed, when auto-detect is enabled, by
\* the resolved issues lacking it, in discovery order; the issues are then
\* analyzed and recorded in the order of the processing list.
C15_LabeledFirstThenDiscoveryOrder ==
  /\ [][pc = "gate" /\ Len(Resolved) > 0 =>
          LET labeled == SelectSeq(Resolved, LAMBDA x : CarriesQaLabel(x))
              unlabeled == SelectSeq(Resolved, LAMBDA x : ~CarriesQaLabel(x))
          IN issuesToProcess' =
               Numbers(labeled) \o (IF disc.autoDetect THEN Numbers(unlabeled) ELSE <<>>)]_vars
  /\ [](pc \in {"analyze", "finalize"} \cup InIssue =>
          /\ idx \in 1..(Len(issuesToProcess) + 1)
          /\ LET done == SelectSeq(results.results,
                                   LAMBDA r : In(r.issueNumber, issuesToProcess))
             IN /\ Len(done) = idx - 1
                /\ \A k \in 1..Len(done) : done[k].issueNumber = issuesToProcess[k])
  /\ [][pc \notin {"gate", "mode"} => issuesToProcess' = issuesToProcess]_vars

C15_Witness ==
  /\ pc = "gate"
  /\ disc.autoDetect
  /\ Len(Resolved) = 2
  /\ ~CarriesQaLabel(Resolved[1])
  /\ CarriesQaLabel(Resolved[2])
  /\ Resolved[1].source = "pr"

\* C16: in manual mode exactly the issue of the input is resolved; when it
\* does not exist or is a pull request the run is failed and ends, with no
\* automatic discovery and with no issue analyzed, tested, commented on or
\* changed.
C16_ManualModeNoFallback ==
  /\ [][(pc = "mode" /\ disc.issueNumber # 0) =>
          /\ disc'.prLinkedIssues = <<>> /\ disc'.commitIssues = <<>>
          /\ disc'.event = "" /\ disc'.prNumber = 0
          /\ \/ /\ pc' = "analyze"
                /\ issuesToProcess' = <<disc.issueNumber>>
                /\ failed' = ""
             \/ /\ pc' = "done"
                /\ disc' = NoDisc
                /\ failed' # ""
                /\ issuesToProcess' = <<>>]_vars
  /\ [](failed = NotFoundOrPullRequest =>
          /\ pc = "done"
          /\ disc = NoDisc
          /\ issuesToProcess = <<>>
          /\ results = EmptyResults
          /\ result = NewResult(0)
          /\ calls = NoCalls
          /\ JobsCreated = 0)

C16_Witness == failed = NotFoundOrPullRequest

\* C17: in automatic mode no step of the discovery marks the run failed.
C17_AutoDiscoveryNeverFails ==
  [][(pc \in {"mode", "sources", "gate"} /\ disc.issueNumber = 0) => failed' = ""]_vars

\* C18: on a push event for which no merged PR is found, or the lookup
\* fails, there is no PR number and no PR context, the PR-linked list stays
\* empty, the commit-message issues are still fetched, and the resolved
\* issues are then exactly the commit-message issues, each processed or
\* skipped for the missing label.
C18_NoPRCommitStillRuns ==
  /\ []((disc.event = "push" /\ disc.lookup \in {"none", "error"}) =>
          /\ disc.prNumber = 0
          /\ ~disc.prContext
          /\ disc.prLinkedIssues = <<>>
          /\ pc \in {"sources", "gate"}
          /\ pc = "gate" => Resolved = disc.commitIssues)
  /\ [][(pc = "sources" /\ disc.prNumber = 0) =>
          pc' = "gate" /\ failed' = "" /\ disc'.prLinkedIssues = <<>>]_vars
  /\ [][(pc = "gate" /\ disc.prNumber = 0 /\ disc.commitIssues # <<>>) =>
          /\ Range(issuesToProcess') \cup Range(results'.skippedIssues) =
               NumbersIn(disc.commitIssues)
          /\ \A i \in 1..Len(disc.commitIssues) :
               (CarriesQaLabel(disc.commitIssues[i]) \/ disc.autoDetect) =>
                 In(disc.commitIssues[i].number, issuesToProcess')]_vars

C18_Witness ==
  /\ pc = "gate"
  /\ disc.event = "push"
  /\ disc.lookup = "error"
  /\ Len(disc.commitIssues) = 2

\* The skipped record processIssue made for the current issue.
SkippedByAnalysis ==
  /\ IssueEnded
  /\ calls.analyze = 1
  /\ LastRecord.issueNumber = issuesToProcess[idx - 1]
  /\ LastRecord.status = "skipped"

\* C19: when the classifier answers not testable, or neither the test-url
\* input nor the analysis gives a URL, the issue is recorded as skipped, not
\* as an error, with a non-empty reason, is in skippedIssues, and no job was
\* created, no comment posted and no state or label call made for it; and
\* processIssue skips an issue in these two cases only.
C19_NotTestableIsSkipped ==
  /\ (IssueEnded /\ calls.analyze = 1 /\ LastRecord.error.kind \notin AnalyzeErrors
        /\ (~LastRecord.analysis.isTestable
              \/ (inputs.testUrl = "" /\ LastRecord.analysis.testUrl = ""))) =>
       SkippedByAnalysis
  /\ SkippedByAnalysis =>
       /\ LastRecord.skipReason # ""
       /\ LastRecord.error = NoError
       /\ ~LastRecord.passed
       /\ LastRecord.testResult = NoTestResult
       /\ In(LastRecord.issueNumber, results.skippedIssues)
       /\ Lists(LastRecord.issueNumber) = {"skipped"}
       /\ calls = [NoCalls EXCEPT !.analyze = 1]
       /\ \/ ~LastRecord.analysis.isTestable
          \/ inputs.testUrl = "" /\ LastRecord.analysis.testUrl = ""

C19_Witness ==
  /\ SkippedByAnalysis
  /\ LastRecord.analysis.isTestable
  /\ LastRecord.skipReason = "No testable URL found"

\* The current issue's test failed and its verdict was recorded.
OnFailPath ==
  /\ IssueEnded
  /\ calls.comment = 1
  /\ LastRecord.issueNumber = issuesToProcess[idx - 1]
  /\ LastRecord.testResult # NoTestResult
  /\ ~LastRecord.passed
  /\ In(LastRecord.issueNumber, results.failedIssues)

\* C20 (as stated): on a failed test a reopen is issued iff reopen-on-failure
\* is enabled and the failure label is added iff a failure label is
\* configured; no close and no label removal is issued.
C20_ReopenAndLabelIffConfigured ==
  OnFailPath =>
    /\ calls.reopen = 1 <=> inputs.reopenOnFailure
    /\ calls.addLabel = 1 <=> inputs.failureLabel # ""
    /\ calls.close = 0 /\ calls.removeLabel = 0

\* C20 (amended): on a failed test whose comment was posted, one reopen is
\* issued iff reopen-on-failure is enabled, without reading the issue's
\* state; the failure label, which is always configured, is then added once,
\* unless the reopen call failed, in which case no label is added and the
\* issue is recorded as error; no close and no label removal is issued.
C20_LabelAddedUnlessReopenFailed ==
  OnFailPath =>
    /\ calls.reopen = (IF inputs.reopenOnFailure THEN 1 ELSE 0)
    /\ calls.get = 0 /\ calls.close = 0 /\ calls.removeLabel = 0
    /\ inputs.failureLabel # ""
    /\ calls.addLabel \in {0, 1}
    /\ LastRecord.status = "tested" => calls.addLabel = 1
    /\ calls.addLabel = 0 =>
         /\ inputs.reopenOnFailure
         /\ LastRecord.status = "error"
         /\ LastRecord.error = GithubError

C20_Witness ==
  /\ OnFailPath
  /\ calls.reopen = 1
  /\ calls.addLabel = 1
  /\ LastRecord.status = "tested"

\* The current issue's test passed and its verdict was recorded.
OnPassPath ==
  /\ IssueEnded
  /\ calls.comment = 1
  /\ LastRecord.issueNumber = issuesToProcess[idx - 1]
  /\ LastRecord.passed
  /\ In(LastRecord.issueNumber, results.passedIssues)

\* C21: on a passed test the issue's state is read once and a close update
\* is issued only if the state read is open, none if it is closed; the
\* removal of the failure label is attempted only if remove-on-success is
\* configured, and only on a passed test; a 404 of the removal is treated as
\* success: the issue is recorded as tested and passed, without an error.
C21_PassPathIdempotent ==
  /\ calls.get > 0 => result.passed \/ OnPassPath
  /\ calls.close <= calls.get /\ calls.get <= 1
  /\ calls.close = 1 => calls.issueState = "open"
  /\ calls.issueState = "closed" => calls.close = 0
  /\ calls.removeLabel <= 1
  /\ calls.removeLabel = 1 =>
       /\ inputs.removeFailureLabelOnSuccess
       /\ calls.get = 1 /\ calls.issueState # ""
       /\ result.passed \/ OnPassPath
  /\ (OnPassPath /\ calls.issueState # "" /\ ~inputs.removeFailureLabelOnSuccess) =>
       calls.removeLabel = 0
  /\ (IssueEnded /\ calls.labelStatus = 404) =>
       /\ OnPassPath
       /\ LastRecord.status = "tested"
       /\ LastRecord.error = NoError
       /\ In(LastRecord.issueNumber, results.testedIssues)
       /\ ~In(LastRecord.issueNumber, results.failedIssues)

C21_Witness ==
  /\ OnPassPath
  /\ calls.issueState = "closed"
  /\ calls.close = 0
  /\ calls.labelStatus = 404
  /\ LastRecord.status = "tested"

\* The positions of processIssue after the comment was posted.
AfterComment == {"ensureClosed", "removeLabel", "reopen", "addLabel"}

\* C22: one comment post is attempted for every issue whose job reached a
\* terminal status, whatever the status and the verdict, and none for an
\* issue that was skipped or whose processing failed before a test result
\* was obtained; no issue is processed twice, so none gets two comments.
C22_OneCommentPerTestedIssue ==
  /\ calls.comment \in {0, 1}
  /\ \A i, j \in 1..Len(issuesToProcess) :
       issuesToProcess[i] = issuesToProcess[j] => i = j
  /\ pc \in {"create", "poll", "comment"} => calls.comment = 0
  /\ pc = "comment" => IsTerminal(result.testResult.status)
  /\ pc \in AfterComment => calls.comment = 1 /\ IsTerminal(result.testResult.status)
  /\ IssueEnded =>
       /\ LastRecord.issueNumber = issuesToProcess[idx - 1]
       /\ calls.comment = 1 <=> IsTerminal(LastRecord.testResult.status)
       /\ LastRecord.status = "skipped" => calls.comment = 0
       /\ LastRecord.testResult = NoTestResult => calls.comment = 0

C22_Witness ==
  /\ IssueEnded
  /\ idx = 3
  /\ calls.comment = 1
  /\ LastRecord.testResult.status = "abandoned"
  /\ ~LastRecord.passed
  /\ \E i \in LoopRecords : results.results[i].status = "skipped"

\* The statement of the comment that says the issue was reopened.
SaysReopened ==
  calls.posted.actionTaken = "This issue has been reopened because the QA test failed."
SaysResolved ==
  calls.posted.actionTaken = "Test passed. Issue confirmed as resolved."

\* C23: the action statement of the posted comment states the action taken:
\* once the processing of an issue whose comment was posted has ended, the
\* comment says the issue has been reopened only if a reopen was issued for
\* it, and it says confirmed as resolved exactly when the test passed.
C23_CommentStatesActionTaken ==
  (OnFailPath \/ OnPassPath) =>
    /\ SaysReopened => calls.reopen = 1
    /\ SaysResolved <=> LastRecord.passed

\* The classifier was given the test-url input as base URL and returned a
\* URL that extends it with a path.
ClassifierExtendedBase ==
  /\ calls.analyze = 1
  /\ inputs.testUrl = "https://base"
  /\ calls.analyzedUrl = "https://base/settings"

\* C24: when the test-url input is provided and the classifier returns a
\* URL that extends it with a path, the job is created against the
\* classifier's extended URL, and the comment reports that URL.
C24_ExtendedUrlIsTested ==
  ClassifierExtendedBase =>
    /\ calls.create = 1 => calls.jobUrl = calls.analyzedUrl
    /\ calls.comment = 1 => calls.posted.testedUrl = calls.analyzedUrl

\* C26: an HTTP 401 from the RunHuman service, on any of the calls analyze,
\* create job and get job status, ends the issue with the authentication
\* failure message, and no other status does.
C26_UnauthorizedIsAuthError ==
  (IssueEnded /\ calls.httpStatus # 0) =>
    /\ LastRecord.status = "error"
    /\ LastRecord.error.kind = "auth" <=> calls.httpStatus = 401

\* The step that marks the run failed for its configuration and does
\* nothing else: no issue fetched or processed, no call made.
FatalStep ==
  /\ failed' \in ConfigurationErrors
  /\ pc' = "done"
  /\ UNCHANGED <<context, extraction, inputs, disc, issuesToProcess, idx, results, result, poll,
                 nextJobId, calls, outputsSet>>

\* Nothing was fetched, processed or called.
Untouched ==
  /\ inputs = NoInputs /\ disc = NoDisc
  /\ issuesToProcess = <<>> /\ results = EmptyResults
  /\ calls = NoCalls /\ nextJobId = 1 /\ poll = IdlePoll
  /\ ~outputsSet

\* str is an integer written in decimal digits, with an optional sign.
IsInteger(str) ==
  LET signed == str # <<>> /\ Head(str) \in {"-", "+"}
      digits == IF signed THEN Tail(str) ELSE str
  IN digits # <<>> /\ \A i \in 1..Len(digits) : IsDigit(digits[i])

\* The configuration errors as the claim lists them.
StatedConfigError(e) ==
  \/ ~StartsWith(e.apiKey, <<"q", "a", "_", "l", "i", "v", "e", "_">>)
  \/ /\ e.targetDurationMinutes # <<>>
     /\ ~(IsInteger(e.targetDurationMinutes)
            /\ parseInt(e.targetDurationMinutes).value \in 1..60)
  \/ /\ IsInteger(e.issueNumber)
     /\ parseInt(e.issueNumber).value <= 0
  \/ e.testUrl # "" /\ UrlProtocol(e.testUrl) \notin {"http:", "https:"}
  \/ e.issuePattern # "" /\ ~RegExpCompiles(e.issuePattern)

LeadingIntegerIn(str, lo, hi) ==
  /\ ~parseInt(str).nan
  /\ lo <= parseInt(str).value /\ parseInt(str).value <= hi

\* The configuration errors of the code: the two numeric inputs are judged
\* by the integer they start with.
LenientConfigError(e) ==
  \/ ~StartsWith(e.apiKey, <<"q", "a", "_", "l", "i", "v", "e", "_">>)
  \/ /\ e.targetDurationMinutes # <<>>
     /\ ~LeadingIntegerIn(e.targetDurationMinutes, 1, 60)
  \/ /\ e.issueNumber # <<>>
     /\ (parseInt(e.issueNumber).nan \/ parseInt(e.issueNumber).value < 1)
  \/ e.testUrl # "" /\ UrlProtocol(e.testUrl) \notin {"http:", "https:"}
  \/ e.issuePattern # "" /\ ~RegExpCompiles(e.issuePattern)

ClosingKeywords ==
  {<<"f", "i", "x">>, <<"f", "i", "x", "e", "s">>, <<"f", "i", "x", "e", "d">>,
   <<"c", "l", "o", "s", "e">>, <<"c", "l", "o", "s", "e", "s">>,
   <<"c", "l", "o", "s", "e", "d">>,
   <<"r", "e", "s", "o", "l", "v", "e">>,
   <<"r", "e", "s", "o", "l", "v", "e", "s">>,
   <<"r", "e", "s", "o", "l", "v", "e", "d">>}

\* The call has returned.
Extracted == pc = "done" /\ extraction.parts # NoParts

\* The message is "keyword #N" for one of the nine keywords in some letter
\* case and a number N.
IsKeywordMessage(parts) ==
  /\ parts.before = <<>> /\ parts.after = <<>>
  /\ \E k \in ClosingKeywords :
       /\ Len(parts.word) = Len(k)
       /\ \A i \in 1..Len(k) : parts.word[i] = k[i] \/ parts.word[i] = UpperChar(k[i])
  /\ parts.gap = <<" ">> /\ parts.hash = <<"#">>
  /\ IsInteger(parts.number) /\ IsDigit(Head(parts.number))

\* C27: for each of the nine keywords fix, fixes, fixed, close, closes,
\* closed, resolve, resolves, resolved in any letter case and every number
\* N, the call on "keyword #N" without a custom pattern returns exactly N.
C27_KeywordNumberYieldsN ==
  (Extracted /\ extraction.customPattern = "" /\ IsKeywordMessage(extraction.parts)) =>
    extraction.returned = <<DecimalValue(extraction.parts.number)>>

C27_Witness ==
  /\ Extracted
  /\ extraction.customPattern = ""
  /\ Message(extraction.parts) = <<"R", "e", "S", "o", "L", "v", "E", "d", " ", "#", "1", "2">>
  /\ extraction.returned = <<12>>

\* The positions of the references #N of a message, and the number of each.
HashRefs(str) == {h \in 1..(Len(str) - 1) : str[h] = "#" /\ IsDigit(str[h + 1])}
RefNumber(str, h) == DecimalValue(LeadingRun(From(str, h + 1), "d"))

\* A closing keyword ends right before position h, up to white space.
PrecededByKeyword(str, h) ==
  \E k \in 1..h :
    /\ \A i \in k..(h - 1) : IsWhitespace(str[i])
    /\ \E w \in ClosingKeywords :
         /\ k - Len(w) >= 1
         /\ \A i \in 1..Len(w) :
              str[k - Len(w) - 1 + i] \in {w[i], UpperChar(w[i])}

\* C28: without a custom pattern, every number returned is the number of a
\* reference #N of the message that a closing keyword immediately precedes,
\* up to optional white space: a reference without such a keyword
\* contributes no number.
C28_PlainReferenceIgnored ==
  (Extracted /\ extraction.customPattern = "") =>
    LET message == Message(extraction.parts)
    IN \A n \in Range(extraction.returned) :
         \E h \in HashRefs(message) :
           RefNumber(message, h) = n /\ PrecededByKeyword(message, h)

C28_Witness ==
  /\ Extracted
  /\ extraction.customPattern = ""
  /\ Message(extraction.parts) =
       <<"r", "e", "l", "a", "t", "e", "d", " ", "t", "o", ":", " ", "#", "1", "2">>
  /\ extraction.returned = <<>>

\* C29: every number returned is a positive integer, whether it came from
\* the built-in pattern or from the custom pattern.
C29_OnlyPositiveNumbers ==
  Extracted => \A n \in Range(extraction.returned) : n > 0

\* C30: with a custom pattern that does not compile the call returns what
\* it returns without a custom pattern: the built-in matches.
C30_InvalidPatternIgnored ==
  (Extracted /\ extraction.customPattern # ""
     /\ ~RegExpCompiles(extraction.customPattern)) =>
    /\ extraction.returned =
         parseIssueNumbersFromCommitMessage(Message(extraction.parts), "")
    /\ \A h \in HashRefs(Message(extraction.parts)) :
         PrecededByKeyword(Message(extraction.parts), h) =>
           RefNumber(Message(extraction.parts), h) \in Range(extraction.returned)

C30_Witness ==
  /\ Extracted
  /\ extraction.customPattern = "[invalid regex("
  /\ Message(extraction.parts) =
       <<"c", "l", "o", "s", "e", "s", "#", "1", "2", " ", "a", "n", "d", " ", "#", "3">>
  /\ extraction.returned = <<12>>

\* C33: at the end of a run passedIssues and failedIssues are disjoint and
\* their union is testedIssues, also when a close, reopen or label call
\* failed after the verdict was recorded.
C33_TestedIsPassedOrFailed ==
  pc = "done" =>
    /\ Range(results.passedIssues) \cap Range(results.failedIssues) = {}
    /\ Range(results.passedIssues) \cup Range(results.failedIssues)
         = Range(results.testedIssues)

\* C34: in every result record passed is true only if the status is tested,
\* and an issue whose record has status error is in none of testedIssues,
\* passedIssues, failedIssues and skippedIssues.
C34_ErrorRecordIsUnlisted ==
  \A r \in AllRecords :
    /\ r.passed => r.status = "tested"
    /\ r.status = "error" => Lists(r.issueNumber) = {}

\* The list holds no element twice.
NoDuplicates(list) == Cardinality(Range(list)) = Len(list)
\* The numbers of the issues skipped for the missing label.
LabelSkippedNumbers == {r.issueNumber : r \in LabelSkipRecords}

\* C35: in an automatic-mode run that resolves a non-empty issue set and
\* ends normally, every issue of the deduplicated resolved set is either
\* label-skipped or put once in the processing list, which does not change
\* afterwards, and at the end has exactly one record; no issue number has two
\* records or appears twice in an output list.
C35_OneRecordPerResolvedIssue ==
  /\ [][(pc = "gate" /\ Len(Resolved) > 0) =>
          /\ NoDuplicates(issuesToProcess')
          /\ Range(issuesToProcess') \cap Range(results'.skippedIssues) = {}
          /\ Range(issuesToProcess') \cup Range(results'.skippedIssues) = NumbersIn(Resolved)
          /\ {r.issueNumber : r \in Range(results'.results)} = Range(results'.skippedIssues)
          /\ disc'.issueNumber = 0]_vars
  /\ [][pc \notin {"mode", "gate"} => issuesToProcess' = issuesToProcess]_vars
  /\ []((pc = "done" /\ outputsSet /\ disc.issueNumber = 0) =>
          /\ \A n \in Range(issuesToProcess) \cup LabelSkippedNumbers :
               Cardinality(RecordsOf(n)) = 1
          /\ \A n \in IssueNumbers : Cardinality(RecordsOf(n)) <= 1
          /\ NoDuplicates(results.testedIssues)
          /\ NoDuplicates(results.passedIssues)
          /\ NoDuplicates(results.failedIssues)
          /\ NoDuplicates(results.skippedIssues))

C35_Witness ==
  /\ pc = "done"
  /\ outputsSet
  /\ disc.issueNumber = 0
  /\ Len(issuesToProcess) = 1
  /\ Len(results.results) = 2
  /\ results.results[1].skipReason = "Missing qa label"
  /\ results.results[2].status = "error"

\* The close, reopen, add-label and remove-label calls made for the current
\* issue, and the read of ensureIssueClosed.
StateCalls == calls.get + calls.close + calls.reopen + calls.addLabel + calls.removeLabel
\* The positions of processIssue in "Manage issue state".
ManagingState == {"ensureClosed", "removeLabel", "reopen", "addLabel"}

\* C36: within one issue the comment is posted before any state or label
\* change: processIssue manages the issue state, or has made a state or
\* label call, only after the one comment was created; when the posting
\* fails, processIssue ends with no close, reopen, add-label or remove-label
\* call, no verdict pushed, and the issue recorded with status error although
\* its job ran to a terminal status.
C36_CommentBeforeStateChange ==
  /\ (pc \in ManagingState \/ StateCalls > 0) =>
       calls.comment = 1 /\ calls.commented
  /\ (calls.comment > 0 /\ ~calls.commented) =>
       /\ IssueEnded
       /\ StateCalls = 0
       /\ Lists(result.issueNumber) = {}
       /\ LastRecord.issueNumber = result.issueNumber
       /\ LastRecord.status = "error"
       /\ LastRecord.error = GithubError
       /\ LastRecord.testResult.status \in TERMINAL_STATES

C36_Witness ==
  /\ calls.comment = 1
  /\ ~calls.commented
  /\ LastRecord.status = "error"
  /\ LastRecord.testResult.status = "completed"
  /\ LastRecord.testResult.success = "false"
  /\ inputs.reopenOnFailure

\* The sum of costUsd over the records that carry a testResult.
RECURSIVE CostOf(_)
CostOf(records) ==
  IF records = <<>> THEN 0
  ELSE (IF Head(records).testResult # NoTestResult
        THEN Head(records).testResult.costUsd ELSE 0) + CostOf(Tail(records))

\* C37: between two issues and at the end of the run totalCostUsd is the sum
\* of costUsd over all result records that carry a testResult, the records
\* with status error made after the job result included; the records of
\* issues skipped or failed before a job result carry no testResult and add
\* nothing.
C37_TotalCostIsSumOfJobCosts ==
  pc \in {"analyze", "finalize", "done"} =>
    /\ results.totalCostUsd = CostOf(results.results)
    /\ \A r \in AllRecords :
         (r.status = "skipped" \/ (r.status = "error" /\ r.error # GithubError)) =>
           r.testResult = NoTestResult

C37_Witness ==
  /\ pc = "done"
  /\ Len(results.results) = 2
  /\ results.results[1].status = "error"
  /\ results.results[1].testResult.costUsd = 1
  /\ results.results[2].status = "tested"
  /\ results.results[2].testResult.costUsd = 1
  /\ results.totalCostUsd = 2

\* The run is a manual one and getIssueByNumber has returned its issue.
ManualRun == disc.issue # NoIssue

\* C39: in manual mode label gating and discovery are bypassed: whatever the
\* labels of the fetched issue and whatever auto-detect is, the processing
\* list is that issue alone, no record is a label skip, the classifier is
\* called for it, no PR context is kept or sent with its job, and no record,
\* list entry or job belongs to another issue.
C39_ManualModeBypassesGating ==
  ManualRun =>
    /\ disc.issue.number = disc.issueNumber
    /\ issuesToProcess = <<disc.issueNumber>>
    /\ LabelSkipRecords = {}
    /\ pc \in {"analyze", "finalize", "done"} \cup InIssue
    /\ pc \in InIssue \cup {"finalize"} =>
         calls.analyze = 1 /\ result.issueNumber = disc.issueNumber
    /\ pc = "done" => Len(results.results) = 1
    /\ ~disc.prContext
    /\ ~calls.prSection
    /\ disc.prLinkedIssues = <<>> /\ disc.commitIssues = <<>>
    /\ \A r \in AllRecords : r.issueNumber = disc.issueNumber
    /\ \A n \in IssueNumbers \ {disc.issueNumber} : Lists(n) = {}
    /\ JobsCreated <= 1

C39_Witness ==
  /\ ManualRun
  /\ ~CarriesQaLabel(disc.issue)
  /\ ~disc.autoDetect
  /\ pc = "poll"
  /\ calls.analyze = 1
  /\ calls.created
  /\ ~calls.prSection

\* issues.get answered with an issue that is not a pull request.
IsIssueReply(reply) == reply.status = 200 /\ ~reply.pullRequest
\* The read of the commit failed, or issues.get failed for a referenced
\* number with something other than a 404.
CommitSetLost ==
  \/ disc.getCommit = "error"
  \/ \E i \in 1..Len(disc.issueReplies) : disc.issueReplies[i].status \notin {200, 404}

\* C38: a commit-referenced number that does not exist (404) or is a pull
\* request is dropped alone and the other referenced issues are kept in the
\* order of the message; any other error while reading the commit or
\* fetching a referenced issue makes the whole commit-sourced set empty,
\* issues fetched before it included, without failing the run, whose resolved
\* issues are then the PR-linked issues only.
C38_CommitFetchErrors ==
  pc = "gate" =>
    /\ failed = ""
    /\ IF CommitSetLost
       THEN disc.commitIssues = <<>> /\ Resolved = disc.prLinkedIssues
       ELSE LET kept == SelectSeq(disc.issueReplies, IsIssueReply)
            IN /\ Len(disc.commitIssues) = Len(kept)
               /\ \A i \in 1..Len(kept) :
                    /\ disc.commitIssues[i].number = kept[i].number
                    /\ disc.commitIssues[i].labels = kept[i].labels

C38_Witness ==
  /\ pc = "gate"
  /\ Len(disc.issueReplies) = 2
  /\ IsIssueReply(disc.issueReplies[1])
  /\ disc.issueReplies[2].status = 500
  /\ disc.commitIssues = <<>>
  /\ Len(disc.prLinkedIssues) = 1
  /\ disc.prLinkedIssues[1].number = disc.issueReplies[2].number

\* out is text when text has at most limit characters, and else the first
\* limit characters of text followed by the marker.
CutAt(text, out, limit) ==
  IF Len(text) <= limit THEN out = text
  ELSE /\ Len(out) = limit + Len(TruncationMarker)
       /\ \A i \in 1..limit : out[i] = text[i]
       /\ \A j \in 1..Len(TruncationMarker) : out[limit + j] = TruncationMarker[j]

\* C31: truncation is deterministic prefix truncation: in every formatted
\* context the issue body (limit 2000), the PR body (limit 1500) and each
\* shown comment body (limit 500) is the original when it has at most limit
\* characters, and else exactly its first limit characters followed by the
\* fixed marker; a repeated call on the same arguments gives the same result.
C31_TruncationIsPrefix ==
  \A k \in 1..Len(context.formatted) :
    LET made == context.formatted[k]
        pr == context.prContext
    IN /\ CutAt(context.issue.body, made.issueSection.body, ISSUE_BODY_LIMIT)
       /\ pr # NoPRContext =>
            /\ CutAt(pr.body, made.prSection.body, PR_BODY_LIMIT)
            /\ \A i \in 1..Len(made.prSection.discussion.comments) :
                 CutAt(pr.comments[i].body, made.prSection.discussion.comments[i].body,
                       COMMENT_BODY_LIMIT)
       /\ made = context.formatted[1]

C31_Witness ==
  /\ pc = "done"
  /\ Len(context.formatted) = 2
  /\ Len(context.issue.body) = ISSUE_BODY_LIMIT + 1
  /\ Len(context.formatted[2].issueSection.body) = ISSUE_BODY_LIMIT + Len(TruncationMarker)
  /\ Len(context.prContext.body) = PR_BODY_LIMIT
  /\ context.formatted[2].prSection.body = context.prContext.body
  /\ \E i \in 1..Len(context.formatted[2].prSection.discussion.comments) :
       /\ Len(context.prContext.comments[i].body) > COMMENT_BODY_LIMIT
       /\ Len(context.formatted[2].prSection.discussion.comments[i].body)
            = COMMENT_BODY_LIMIT + Len(TruncationMarker)

\* The login, letter case ignored, ends in [bot], is github-actions or
\* contains dependabot.
NamedAsBot(author) ==
  LET name == LowerString(author)
  IN \/ endsWith(name, <<"[", "b", "o", "t", "]">>)
     \/ name = <<"g", "i", "t", "h", "u", "b", "-", "a", "c", "t", "i", "o", "n", "s">>
     \/ includes(name, <<"d", "e", "p", "e", "n", "d", "a", "b", "o", "t">>)
\* The comments of the list that are not by a bot, as PRComments.
HumanComments(comments, isReviewComment) ==
  {[body |-> c.body, author |-> AuthorOf(c), createdAt |-> c.created_at,
    isReviewComment |-> isReviewComment] :
     c \in {x \in Range(comments) : ~NamedAsBot(AuthorOf(x))}}
AllHumanComments ==
  HumanComments(context.pull.issueComments, FALSE)
  \cup HumanComments(context.pull.reviewComments, TRUE)

\* C32: the PR context holds exactly the fetched comments, general and
\* review, whose author is not a bot, oldest first; a formatted context
\* shows the first 10 of them in that order, each with its author and kind,
\* and, when there are more than 10, names total minus 10 as the number not
\* shown, and names none otherwise; without a PR context there is no PR
\* section.
C32_HumanCommentsOldestFirst ==
  LET comments == context.prContext.comments
  IN /\ context.prContext # NoPRContext =>
          /\ Range(comments) = AllHumanComments
          /\ Len(comments) = Cardinality(AllHumanComments)
          /\ \A i, j \in 1..Len(comments) :
               i < j => comments[i].createdAt <= comments[j].createdAt
     /\ \A k \in 1..Len(context.formatted) :
          LET made == context.formatted[k].prSection
              shown == made.discussion.comments
          IN IF context.prContext = NoPRContext THEN made = NoPRSection
             ELSE /\ Len(shown) =
                       IF Len(comments) > MAX_COMMENTS THEN MAX_COMMENTS ELSE Len(comments)
                  /\ \A i \in 1..Len(shown) :
                       /\ shown[i].author = comments[i].author
                       /\ shown[i].commentType =
                            IF comments[i].isReviewComment THEN "review" ELSE "comment"
                  /\ made.discussion.omitted =
                       IF Len(comments) > MAX_COMMENTS
                       THEN Len(comments) - MAX_COMMENTS ELSE 0

C32_Witness ==
  /\ pc = "done"
  /\ Len(context.prContext.comments) > MAX_COMMENTS
  /\ Len(context.prContext.comments)
       < Len(context.pull.issueComments) + Len(context.pull.reviewComments)
  /\ context.pull.issueComments[1].created_at > context.pull.issueComments[2].created_at
  /\ context.formatted[1].prSection.discussion.omitted
       = Len(context.prContext.comments) - MAX_COMMENTS
  /\ Len(context.formatted[1].prSection.discussion.comments) = MAX_COMMENTS
  /\ \E i, j \in 1..MAX_COMMENTS :
       /\ context.formatted[1].prSection.discussion.comments[i].commentType = "review"
       /\ context.formatted[1].prSection.discussion.comments[j].commentType = "comment"

====
